---------------------------- MODULE Spec2Model ----------------------------
(***************************************************************************)
(* Lifecycle management of rented GPU instances: the SSH failsafe guard    *)
(* (start_monitoring_with_failsafe), the PortAllocator, the TunnelManager  *)
(* and the job progress tracker of ComfyUIController.                      *)
(*                                                                         *)
(* Each component has its own specification over the shared variables:     *)
(*   SpecGuard   the polling loop of the failsafe guard                    *)
(*   SpecPorts   one PortAllocator and its state file                      *)
(*   SpecTunnel  one TunnelManager, its PortAllocator, the tunnel          *)
(*               processes and both state files                            *)
(*   SpecJob     invocations of monitor_job_progress on one job log file   *)
(*   SpecStatus  the polling loop of VastInstanceMonitor.monitor, the      *)
(*               remote status script and the parsing of its output        *)
(* A specification leaves the variables of the other components at their   *)
(* initial values.                                                         *)
(***************************************************************************)
EXTENDS Integers, Sequences, FiniteSets, TLC

VARIABLES
    \* ---- failsafe guard ----
    gVariant,          \* which copy of start_monitoring_with_failsafe runs
    gPc,               \* "loop" while in the while loop, "done" once returned
    gNow,              \* time.time() - start_time, in seconds
    sshFailStart,      \* ssh_fail_start_time - start_time: <<>> is None, <<t>> a time
    destroyCalls,      \* calls of destroy_instance(instance_id, force=True)
    deleteRequests,    \* HTTP DELETE requests sent by those calls
    gResult,           \* "pending", or the returned value "True" / "False"
    gExit,             \* which return statement ended the run
    gLast,             \* what the most recent poll observed
    gRestored,         \* the most recent poll printed "SSH connection restored!"
    gAllNotReady,      \* every poll so far fetched a running record and got SSH_NOT_READY
    gRecord,           \* actual_status of the record the most recent poll fetched, or "none"
    gConnected,        \* the most recent poll called execute_remote_script
    gAllNoRecord,      \* every poll so far got None from get_instance_info
    gDestroyReport,    \* what the guard printed after its destroy_instance call
    \* ---- PortAllocator ----
    allocations,       \* self.allocations: instance id -> local port
    portFile,          \* the mapping stored in the state file (~/.vai_ports.json)
    osBusy,            \* local ports some process outside the allocator has bound
    paRet,             \* the most recent PortAllocator call and what it returned
    paTick,            \* changes at a PortAllocator call that changes nothing else
    \* ---- TunnelManager ----
    tunnels,           \* self.tunnels: instance id -> [local_port, pid]
    tunnelFile,        \* the records stored in the state file (~/.vai_tunnels.json)
    procs,             \* running tunnel processes: pid -> local port it forwards
    children,          \* pids this process launched and has not waited for
    nextPid,           \* pid the next launched process gets
    tmRet,             \* the most recent TunnelManager call and its result
    tmTick,            \* flips at every TunnelManager call
    \* ---- job progress tracker ----
    jobFile,           \* the job log file: metadata fields and the appended section
    jPc,               \* "idle" before a run, "loop" inside monitor_job_progress, "done"
    jNow,              \* time.time() - start_time of the current run, in seconds
    execution_started, \* local of monitor_job_progress
    queue_end_time,    \* local of monitor_job_progress: <<>> is None, <<t>> a time
    last_log_position, \* self.last_log_position
    jRet,              \* "none", or what the most recent run returned
    jRuns,             \* invocations of monitor_job_progress on this file so far
    remoteLog,         \* lines of /var/log/portal/comfyui.log on the instance
    inHistory,         \* the server's /history holds an item for the job
    jTrackFrom,        \* the log position the current run started from
    jSawMarker,        \* new_lines of the most recent poll held an execution indicator
    history_item,      \* local of monitor_job_progress: what get_history_item returned
    content,           \* local of update_job_performance_metrics: the file as it was read
    \* ---- status monitor ----
    mPc,               \* "off" before monitor() runs, "loop" inside it, "done" once returned
    mNow,              \* time.time() - start_time of monitor(), in seconds
    markers,           \* what the instance holds: marker lines of onstart.log, the sentinel file
    mRecord,           \* actual_status of the record the most recent poll fetched, or "none"
    mOutcome,          \* how execute_remote_script ended in the most recent poll, or "none"
    mScriptSaw,        \* the markers present when the status script last ran
    attempt,           \* the ssh attempt of an execute_remote_script call made on its own
    rawOutput,         \* raw_output: the text execute_remote_script returned last
    snapshot           \* status_data: what parse_status_output returned last

guardVars == <<gVariant, gPc, gNow, sshFailStart, destroyCalls,
               deleteRequests, gResult, gExit, gLast, gRestored, gAllNotReady,
               gRecord, gConnected, gAllNoRecord, gDestroyReport>>

portVars == <<allocations, portFile, osBusy, paRet, paTick>>

tunnelVars == <<tunnels, tunnelFile, procs, children, nextPid, tmRet, tmTick>>

jobVars == <<jobFile, jPc, jNow, execution_started, queue_end_time,
             last_log_position, jRet, jRuns, remoteLog, inHistory,
             jTrackFrom, jSawMarker, history_item, content>>

statusVars == <<mPc, mNow, markers, mRecord, mOutcome, mScriptSaw, attempt,
                rawOutput, snapshot>>

vars == <<guardVars, portVars, tunnelVars, jobVars, statusVars>>

\* What an action of one component leaves alone in the others.
OnlyGuard == UNCHANGED <<portVars, tunnelVars, jobVars, statusVars>>
OnlyPorts == UNCHANGED <<guardVars, tunnelVars, jobVars, statusVars>>
OnlyTunnel == UNCHANGED <<guardVars, jobVars, statusVars>>
OnlyJob == UNCHANGED <<guardVars, portVars, tunnelVars, statusVars>>
OnlyStatus == UNCHANGED <<guardVars, portVars, tunnelVars, jobVars>>

(***************************************************************************)
(* Failsafe guard                                                          *)
(***************************************************************************)

\* Program constants of start_monitoring_with_failsafe.
max_ssh_fail_minutes == 3
max_wait_minutes == 60
poll_interval == 10
max_wait_time == max_wait_minutes * 60

\* A blocking remote call (control-plane GET, SSH exec) takes k * poll_interval
\* seconds for some k in 0..MaxLatency (both calls carry a timeout); a poll
\* that makes n such calls takes one of Latencies(n).
MaxLatency == 1
Latencies(n) == {k * poll_interval : k \in 0..(n * MaxLatency)}

\* The three copies of the guard: workflows/oneshot.py,
\* workflows/create_and_monitor_config.py and workflows/create_and_monitor.py.
GuardVariants == {"oneshot", "config", "legacy"}

\* What execute_remote_script returns, by the tag of its STATUS line.
\* The status script emits one of five tags; a zero exit status with no STATUS
\* line is "NO_STATUS"; the other four are built by execute_remote_script itself.
ScriptTags == {"READY", "STARTING_APP", "DOWNLOADING", "PROVISIONING", "INITIALIZING"}
SshFailureTags == {"SSH_NOT_READY", "SSH_ERROR", "SSH_AUTH_ERROR"}
RemoteOutputs == ScriptTags \cup SshFailureTags \cup {"SSH_KEY_ERROR", "NO_STATUS"}

\* "SSH_NOT_READY" in raw_output or "SSH_ERROR" in raw_output or
\* "SSH_AUTH_ERROR" in raw_output.  "STATUS: SSH_KEY_ERROR" contains none of
\* the three substrings.
HasSshErrorToken(raw_output) == raw_output \in SshFailureTags

\* What a poll without SSH error token saw: a status tag other than READY
\* ("status"), output without a STATUS line, or the key-file error.
PollKind(raw_output) ==
    IF raw_output \in ScriptTags THEN "status"
    ELSE IF raw_output = "SSH_KEY_ERROR" THEN "key_error" ELSE "no_status"

\* Mutant: the loop condition compares with <= instead of <.
LoopContinues_inclusive(now) == now <= max_wait_time

\* while time.time() - start_time < max_wait_time
LoopContinues(now) == now < max_wait_time

\* if ssh_fail_start_time is None: ssh_fail_start_time = time.time()
StartTimer(fs, t) == IF fs = <<>> THEN <<t>> ELSE fs

\* ssh_fail_duration = (time.time() - ssh_fail_start_time) / 60, in seconds here
FailDuration(fs, t) == t - fs[1]

\* Mutant: the failsafe fires on the first failing poll.
FailsafeDue_any(d) == d >= 0

\* Mutant: the threshold is taken in hours instead of minutes.
FailsafeDue_hours(d) == d >= max_ssh_fail_minutes * 60 * 60

\* if ssh_fail_duration >= max_ssh_fail_minutes
FailsafeDue(d) == d >= max_ssh_fail_minutes * 60

\* The guard reads ssh_fail_start_time only to compare the elapsed failure
\* time with the threshold, so every start time older than the threshold by
\* more than one poll interval leads to the same decisions; such a start time
\* is kept as exactly that age.
TimerHorizon == max_ssh_fail_minutes * 60 + poll_interval
CapAge(fs, now) ==
    IF fs # <<>> /\ now - fs[1] > TimerHorizon THEN <<now - TimerHorizon>> ELSE fs

\* Mutant: a working connection leaves the failure timer running.
TimerAfterSuccess_keep(fs) == fs

\* "SSH working, reset failure tracking": ssh_fail_start_time = None
TimerAfterSuccess(fs) == <<>>

\* create_and_monitor.py resets the timer as soon as get_ssh_info returned
\* coordinates, before execute_remote_script runs; the other two copies carry
\* the comment "don't reset timer until actual SSH works".
ResetsOnSshInfo(v) == v = "legacy"

\* destroy_single_instance(instance_id, force=True): the outcomes of its steps.
DestroyOutcomes == {"no_api_key", "list_failed", "not_found", "deleted", "rejected", "delete_error"}
\* requests.delete is reached only after the instance was found in the list
DestroySendsDelete(o) == o \in {"deleted", "rejected", "delete_error"}
\* True only for response.status_code == 200; every exception is caught
DestroyReturns(o) == o = "deleted"

\* The instance record of the control plane, as far as get_ssh_info reads it:
\* actual_status, and whether both ssh_host and ssh_port are set.
InstanceStatuses == {"running", "loading", "exited"}
Records == [actual_status : InstanceStatuses, has_coords : BOOLEAN]

\* Mutant: get_ssh_info without the check of actual_status.
GetSshInfo_any_status(record) ==
    IF ~record.has_coords THEN <<>> ELSE <<[status |-> record.actual_status]>>

\* get_ssh_info(instance_data) for a fetched record: <<>> is None, <<i>> the
\* dict with host, port and status.
GetSshInfo(record) ==
    IF record.actual_status # "running" THEN <<>>
    ELSE IF ~record.has_coords THEN <<>>
    ELSE <<[status |-> record.actual_status]>>

GuardInit ==
    /\ gVariant \in GuardVariants
    /\ gPc = "loop"
    /\ gNow = 0
    /\ sshFailStart = <<>>
    /\ destroyCalls = 0
    /\ deleteRequests = 0
    /\ gResult = "pending"
    /\ gExit = "none"
    /\ gLast = "none"
    /\ gRestored = FALSE
    /\ gAllNotReady = TRUE
    /\ gRecord = "none"
    /\ gConnected = FALSE
    /\ gAllNoRecord = TRUE
    /\ gDestroyReport = "none"

\* The value of the "return False" that follows the destroy call, and of the
\* one that follows the "Timeout after ... minutes" message.
FailsafeReturn == "False"
TimeoutReturn == "False"

\* The destroy_instance call as the guard sees it: whether the DELETE request
\* went out, and the value returned.  destroy_single_instance catches every
\* Exception of its own try block; "raised" is an exception from outside that
\* block (its prints before the try and in its handler), which the guard's
\* "except Exception" receives.
DestroyResults == {"True", "False", "raised"}
DestroyCalls ==
    {[sent |-> DestroySendsDelete(o),
      result |-> IF DestroyReturns(o) THEN "True" ELSE "False"] : o \in DestroyOutcomes}
    \cup {[sent |-> b, result |-> "raised"] : b \in BOOLEAN}

\* if destroy_result: "Instance destroyed successfully"
\* else: "Failed to destroy instance - manual cleanup may be required"
\* except Exception as e: "Error destroying instance: ..."
DestroyReport(result) ==
    CASE result = "True" -> "destroyed"
      [] result = "False" -> "manual_cleanup"
      [] result = "raised" -> "error"

\* Mutant: a destroy call that failed sends the guard back into its loop.
AfterDestroy_retry(result) ==
    IF result = "True" THEN [pc |-> "done", result |-> FailsafeReturn]
    ELSE [pc |-> "loop", result |-> "pending"]

\* The "return False" after the try statement, whatever the call did.
AfterDestroy(result) == [pc |-> "done", result |-> FailsafeReturn]

\* The failure branch shared by "not ssh_info" and by an SSH error token:
\* start the timer if needed, compute the duration at time t, then either
\* destroy and return False, or sleep poll_interval and continue.
GuardFailure(fs, t, kind) ==
    LET fs2 == StartTimer(fs, t)
        d   == FailDuration(fs2, t)
    IN  /\ gLast' = kind
        /\ IF FailsafeDue(d)
           THEN \E call \in DestroyCalls :
                  /\ sshFailStart' = fs2
                  /\ destroyCalls' = destroyCalls + 1
                  /\ deleteRequests' = deleteRequests + (IF call.sent THEN 1 ELSE 0)
                  /\ gDestroyReport' = DestroyReport(call.result)
                  /\ gPc' = AfterDestroy(call.result).pc
                  /\ gResult' = AfterDestroy(call.result).result
                  /\ gExit' = "destroyed"
                  /\ gNow' = t
           ELSE /\ gNow' = t + poll_interval
                /\ sshFailStart' = CapAge(fs2, t + poll_interval)
                /\ UNCHANGED <<destroyCalls, deleteRequests, gPc, gResult, gExit,
                               gDestroyReport>>

\* get_instance_info returned None (API error or instance not in the list):
\* sleep and continue; the failure timer is neither started nor reset.
GuardPollNoRecord ==
    /\ OnlyGuard
    /\ gAllNoRecord' = gAllNoRecord
    /\ gDestroyReport' = gDestroyReport
    /\ gPc = "loop" /\ LoopContinues(gNow)
    /\ \E d \in Latencies(1) : gNow' = gNow + d + poll_interval
    /\ sshFailStart' = CapAge(sshFailStart, gNow')
    /\ gLast' = "no_record"
    /\ gRestored' = FALSE
    /\ gAllNotReady' = FALSE
    /\ gRecord' = "none"
    /\ gConnected' = FALSE
    /\ UNCHANGED <<gVariant, gPc, destroyCalls, deleteRequests, gResult, gExit>>

\* get_instance_info raised something other than a RequestException (a body
\* that is not the expected JSON object): caught by the guard's outer
\* "except Exception", which returns False.
GuardPollException ==
    /\ OnlyGuard
    /\ gAllNoRecord' = FALSE
    /\ gDestroyReport' = gDestroyReport
    /\ gPc = "loop" /\ LoopContinues(gNow)
    /\ \E d \in Latencies(1) : gNow' = gNow + d
    /\ gPc' = "done"
    /\ gResult' = "False"
    /\ gExit' = "error"
    /\ gLast' = "exception"
    /\ gRestored' = FALSE
    /\ gAllNotReady' = FALSE
    /\ gRecord' = "none"
    /\ gConnected' = FALSE
    /\ UNCHANGED <<gVariant, sshFailStart, destroyCalls, deleteRequests>>

\* The record was fetched but get_ssh_info returned None (actual_status is
\* not "running", or ssh_host / ssh_port is missing).
GuardPollNoSsh ==
    /\ OnlyGuard
    /\ gAllNoRecord' = FALSE
    /\ gPc = "loop" /\ LoopContinues(gNow)
    /\ \E d \in Latencies(1) : GuardFailure(sshFailStart, gNow + d, "no_ssh")
    /\ \E record \in Records :
          GetSshInfo(record) = <<>> /\ gRecord' = record.actual_status
    /\ gConnected' = FALSE
    /\ gRestored' = FALSE
    /\ gAllNotReady' = FALSE
    /\ UNCHANGED gVariant

\* get_ssh_info returned coordinates for the fetched record, so the poll goes
\* on to execute_remote_script.
GuardConnects ==
    /\ \E record \in Records :
          GetSshInfo(record) # <<>> /\ gRecord' = record.actual_status
    /\ gConnected' = TRUE

\* The timer as it stands when execute_remote_script returns.
TimerBeforeExec(v, fs) == IF ResetsOnSshInfo(v) THEN <<>> ELSE fs

\* The record is running and execute_remote_script returned an SSH failure.
GuardPollSshFail ==
    /\ OnlyGuard
    /\ gAllNoRecord' = FALSE
    /\ gPc = "loop" /\ LoopContinues(gNow)
    /\ \E d \in Latencies(2), raw \in {r \in RemoteOutputs : HasSshErrorToken(r)} :
          /\ GuardFailure(TimerBeforeExec(gVariant, sshFailStart), gNow + d, raw)
          /\ gAllNotReady' = (gAllNotReady /\ raw = "SSH_NOT_READY")
    /\ GuardConnects
    /\ gRestored' = FALSE
    /\ UNCHANGED gVariant

\* The record is running and the output carries no SSH error token and is not
\* READY: reset the timer, report, sleep and continue.
GuardPollSshOk ==
    /\ OnlyGuard
    /\ gAllNoRecord' = FALSE
    /\ gDestroyReport' = gDestroyReport
    /\ gPc = "loop" /\ LoopContinues(gNow)
    /\ \E d \in Latencies(2) : gNow' = gNow + d + poll_interval
    /\ \E kind \in {PollKind(r) : r \in {x \in RemoteOutputs \ {"READY"} : ~HasSshErrorToken(x)}} :
          gLast' = kind
    /\ GuardConnects
    /\ sshFailStart' = TimerAfterSuccess(sshFailStart)
    /\ gRestored' = (sshFailStart # <<>>)
    /\ gAllNotReady' = FALSE
    /\ UNCHANGED <<gVariant, gPc, destroyCalls, deleteRequests, gResult, gExit>>

\* Mutant: the READY branch lacks its return statement.
ReadyReturn_continue == [pc |-> "loop", result |-> "pending"]

\* if status_data['status'] == 'READY': ... return True
ReadyReturn == [pc |-> "done", result |-> "True"]

\* The parsed status is READY: return True.
GuardPollReady ==
    /\ OnlyGuard
    /\ gAllNoRecord' = FALSE
    /\ gDestroyReport' = gDestroyReport
    /\ gPc = "loop" /\ LoopContinues(gNow)
    /\ \E d \in Latencies(2) : gNow' = gNow + d
    /\ gLast' = "READY"
    /\ GuardConnects
    /\ sshFailStart' = TimerAfterSuccess(sshFailStart)
    /\ gRestored' = (sshFailStart # <<>>)
    /\ gAllNotReady' = FALSE
    /\ gPc' = ReadyReturn.pc
    /\ gResult' = ReadyReturn.result
    /\ gExit' = "ready"
    /\ UNCHANGED <<gVariant, destroyCalls, deleteRequests>>

\* The loop condition fails: "Timeout after 60 minutes", return False.
GuardTimeout ==
    /\ OnlyGuard
    /\ gAllNoRecord' = gAllNoRecord
    /\ gDestroyReport' = gDestroyReport
    /\ gPc = "loop" /\ ~LoopContinues(gNow)
    /\ gPc' = "done"
    /\ gResult' = TimeoutReturn
    /\ gExit' = "timeout"
    /\ UNCHANGED <<gVariant, gNow, sshFailStart, destroyCalls,
                   deleteRequests, gLast, gRestored, gAllNotReady,
                   gRecord, gConnected>>

GuardNext ==
    \/ GuardPollNoRecord
    \/ GuardPollException
    \/ GuardPollNoSsh
    \/ GuardPollSshFail
    \/ GuardPollSshOk
    \/ GuardPollReady
    \/ GuardTimeout

(***************************************************************************)
(* PortAllocator                                                           *)
(***************************************************************************)

\* Instance identifiers are the strings str(instance_id); 1..NumInstances here.
NumInstances == 2
InstanceIds == 1..NumInstances

\* base_port, and the last port the scan tries.  The code scans up to 65535;
\* the model scans the PortSpan ports that follow base_port.
base_port == 8188
PortSpan == 2
MaxPort == base_port + PortSpan
Ports == base_port..MaxPort

\* The empty mapping, and a mapping without / with one more key.
EmptyMap == [i \in {} |-> base_port]
Without(m, ids) == [i \in DOMAIN m \ ids |-> m[i]]
With(m, id, port) == [i \in DOMAIN m \cup {id} |-> IF i = id THEN port ELSE m[i]]

\* set(self.allocations.values())
AllocatedPorts(alloc) == {alloc[i] : i \in DOMAIN alloc}

\* Mutant: the bind test always passes.
IsPortAvailable_always(busy, port) == TRUE

\* _is_port_available: the bind on 127.0.0.1 succeeds
IsPortAvailable(busy, port) == port \notin busy

\* _find_next_available_port, from candidate_port on: <<port>> for the port
\* returned, <<>> for the RuntimeError raised past the last port.
RECURSIVE ScanPorts(_, _, _)
ScanPorts(candidate_port, allocated_ports, busy) ==
    IF candidate_port \notin allocated_ports /\ IsPortAvailable(busy, candidate_port)
    THEN <<candidate_port>>
    ELSE IF candidate_port + 1 > MaxPort
         THEN <<>>
         ELSE ScanPorts(candidate_port + 1, allocated_ports, busy)

\* Mutant: the scan tests only whether the port can be bound.
FindNextAvailablePort_bind_only(alloc, busy) == ScanPorts(base_port, {}, busy)

FindNextAvailablePort(alloc, busy) == ScanPorts(base_port, AllocatedPorts(alloc), busy)

\* Mutant: allocate never takes the "already has a port" branch.
HasAllocation_never(alloc, id) == FALSE

\* if instance_id in self.allocations
HasAllocation(alloc, id) == id \in DOMAIN alloc

\* The state file holds a JSON object: the keys are the identifiers, which
\* are strings in memory too, and each value is a port written as a decimal
\* numeral, a sequence of digits.
RECURSIVE ToDigits(_)
ToDigits(n) == IF n < 10 THEN <<n>> ELSE Append(ToDigits(n \div 10), n % 10)
RECURSIVE FromDigits(_)
FromDigits(q) ==
    IF q = <<>> THEN 0
    ELSE 10 * FromDigits(SubSeq(q, 1, Len(q) - 1)) + q[Len(q)]

\* json.dump(self.allocations, f, indent=2)
JsonDump(alloc) == [i \in DOMAIN alloc |-> ToDigits(alloc[i])]

\* _save_state: json.dump of the whole mapping; an exception of the write is
\* caught and only printed, and then the file keeps its old content.
WriteOutcomes == {"written", "failed"}
SaveState(file, alloc, outcome) == IF outcome = "written" THEN JsonDump(alloc) ELSE file

\* Mutant: _load_state always takes its except branch.
LoadState_empty(file) == EmptyMap

\* _load_state: {str(k): int(v)} of the stored object
LoadState(file) == [i \in DOMAIN file |-> FromDigits(file[i])]

NoCall == [op |-> "none", id |-> 0, port |-> <<>>, note |-> "none"]
Ret(op, id, port, note) == [op |-> op, id |-> id, port |-> port, note |-> note]

PortsInit ==
    /\ allocations = EmptyMap
    /\ portFile = EmptyMap
    /\ osBusy = {}
    /\ paRet = NoCall
    /\ paTick = FALSE

\* A call that leaves mapping, file and return record as they were sets
\* paTick, or clears it when it is set; every other call clears it.  A call is
\* thus always a step that changes a variable.
PortTick ==
    paTick' = (/\ ~paTick /\ allocations' = allocations
               /\ portFile' = portFile /\ paRet' = paRet)

\* allocate(instance_id)
Allocate(id) ==
    /\ OnlyPorts
    /\ UNCHANGED osBusy
    /\ IF HasAllocation(allocations, id)
       THEN /\ paRet' = Ret("allocate", id, <<allocations[id]>>, "existing")
            /\ UNCHANGED <<allocations, portFile>>
       ELSE LET found == FindNextAvailablePort(allocations, osBusy)
            IN  IF found = <<>>
                THEN /\ paRet' = Ret("allocate", id, <<>>, "RuntimeError")
                     /\ UNCHANGED <<allocations, portFile>>
                ELSE /\ allocations' = With(allocations, id, found[1])
                     /\ \E w \in WriteOutcomes :
                           portFile' = SaveState(portFile, allocations', w)
                     /\ paRet' = Ret("allocate", id, found, "new")
    /\ PortTick

\* release(instance_id)
Release(id) ==
    /\ OnlyPorts
    /\ UNCHANGED osBusy
    /\ IF id \in DOMAIN allocations
       THEN /\ allocations' = Without(allocations, {id})
            /\ \E w \in WriteOutcomes :
                  portFile' = SaveState(portFile, allocations', w)
            /\ paRet' = Ret("release", id, <<allocations[id]>>, "True")
       ELSE /\ paRet' = Ret("release", id, <<>>, "False")
            /\ UNCHANGED <<allocations, portFile>>
    /\ PortTick

\* What a cleanup call leaves in paRet: which branch it took, and which of
\* the identifiers passed as active had an allocation.
RetCleanup(note, active) ==
    [op |-> "cleanup", id |-> 0, port |-> <<>>, note |-> note, active |-> active]

\* Mutant: every allocation counts as stale.
StaleIds_all(alloc, active) == DOMAIN alloc

\* stale_ids = set(self.allocations.keys()) - active_ids
StaleIds(alloc, active) == DOMAIN alloc \ active

\* cleanup_stale_allocations(active_instance_ids)
CleanupStaleAllocations(active) ==
    LET stale_ids == StaleIds(allocations, active)
    IN  /\ OnlyPorts
        /\ UNCHANGED osBusy
        /\ paRet' = RetCleanup(IF stale_ids # {} THEN "cleaned" ELSE "nothing",
                               active \cap DOMAIN allocations)
        /\ IF stale_ids # {}
           THEN /\ allocations' = Without(allocations, stale_ids)
                /\ \E w \in WriteOutcomes :
                      portFile' = SaveState(portFile, allocations', w)
           ELSE UNCHANGED <<allocations, portFile>>
        /\ PortTick

\* PortAllocator(): a new allocator on the same state file (the next CLI run).
PortsReload ==
    /\ OnlyPorts
    /\ allocations' = LoadState(portFile)
    /\ paRet' = Ret("load", 0, <<>>, "none")
    /\ UNCHANGED <<portFile, osBusy>>
    /\ PortTick

\* Some other process binds or closes a local port.
OsBind(port) ==
    /\ OnlyPorts
    /\ port \notin osBusy
    /\ port \notin AllocatedPorts(allocations)
    /\ osBusy' = osBusy \cup {port}
    /\ UNCHANGED <<allocations, portFile, paRet, paTick>>

OsClose(port) ==
    /\ OnlyPorts
    /\ port \in osBusy
    /\ osBusy' = osBusy \ {port}
    /\ UNCHANGED <<allocations, portFile, paRet, paTick>>

PortsNext ==
    \/ \E id \in InstanceIds : Allocate(id)
    \/ \E id \in InstanceIds : Release(id)
    \/ \E active \in SUBSET InstanceIds : CleanupStaleAllocations(active)
    \/ PortsReload
    \/ \E port \in Ports : OsBind(port)
    \/ \E port \in Ports : OsClose(port)

\* A second process on the same state file: PortAllocator() loads the file,
\* allocate(instance_id) scans from base_port against what it loaded and
\* writes its mapping back, and the process ends.  The allocator of the first
\* process keeps the mapping it loaded earlier.
PeerAllocate(id) ==
    LET loaded == LoadState(portFile)
        found  == FindNextAvailablePort(loaded, osBusy)
    IN  /\ OnlyPorts
        /\ ~HasAllocation(loaded, id)
        /\ found # <<>>
        /\ portFile' = SaveState(portFile, With(loaded, id, found[1]), "written")
        /\ UNCHANGED <<allocations, osBusy, paRet, paTick>>

\* allocate(instance_id) in the first process, its write taken by the file
\* system.
AllocateAndWrite(id) ==
    /\ Allocate(id)
    /\ paRet'.note = "new" => portFile' = SaveState(portFile, allocations', "written")

\* Two processes that allocate on one state file.
SharedPortsNext ==
    \/ \E id \in InstanceIds : AllocateAndWrite(id)
    \/ \E id \in InstanceIds : PeerAllocate(id)
    \/ PortsReload
    \/ \E port \in Ports : OsBind(port)
    \/ \E port \in Ports : OsClose(port)

(***************************************************************************)
(* TunnelManager                                                           *)
(***************************************************************************)

\* Number of tunnel processes launched in one behaviour.
MaxSpawns == 3

NoTunnels == [i \in {} |-> [local_port |-> base_port, pid |-> 0]]

\* _is_process_running: os.kill(pid, 0) raises no OSError.  Signal 0 reaches
\* a running process, and also a child of the calling process that has exited
\* and was not waited for yet.
IsProcessRunning(running, kids, pid) == pid \in DOMAIN running \cup kids

\* subprocess.Popen(...) first polls the children whose Popen object is gone
\* and so reaps those that have exited.
Reaped(kids, running) == kids \cap DOMAIN running

\* Ports that fail the bind test: bound by another process or by a running tunnel.
BusyPorts(busy, running) == busy \cup {running[pid] : pid \in DOMAIN running}

\* The instances _cleanup_dead_tunnels collects: pid set and not running.
DeadInstances(t, running, kids) ==
    {i \in DOMAIN t : t[i].pid # 0 /\ ~IsProcessRunning(running, kids, t[i].pid)}

\* _cleanup_dead_tunnels: pops the dead records; the port allocations stay.
CleanupDeadTunnels(t, running, kids) == Without(t, DeadInstances(t, running, kids))

\* Mutant: create_tunnel never takes the "Tunnel already exists" branch.
TunnelAlreadyUp_never(t, running, kids, id) == FALSE

\* create_tunnel: instance_id in self.tunnels and its process is running
TunnelAlreadyUp(t, running, kids, id) ==
    id \in DOMAIN t /\ IsProcessRunning(running, kids, t[id].pid)

\* create_tunnel, except branch: self.port_allocator.release(instance_id)
AllocationsAfterFailedLaunch(alloc, id) == Without(alloc, {id})

\* Mutant: close_tunnel releases the port but keeps the record.
TunnelsAfterClose_kept(t, id) == t

\* close_tunnel: self.tunnels.pop(instance_id)
TunnelsAfterClose(t, id) == Without(t, {id})

\* What happens to the launched ssh process: Popen raises, the process has
\* exited by the end of the 2 s grace delay, or it is still running.
LaunchOutcomes == {"launch_error", "died", "alive"}

TunnelInit ==
    /\ tunnels = NoTunnels
    /\ tunnelFile = NoTunnels
    /\ procs = EmptyMap
    /\ children = {}
    /\ nextPid = 1
    /\ tmRet = NoCall
    /\ tmTick = FALSE

\* create_tunnel(instance_id, ssh_host, ssh_port)
CreateTunnel(id) ==
    /\ OnlyTunnel
    /\ tmTick' = ~tmTick
    /\ UNCHANGED <<osBusy, paRet, paTick>>
    /\ IF TunnelAlreadyUp(tunnels, procs, children, id)
       THEN /\ tmRet' = Ret("create", id, <<tunnels[id].local_port>>, "existing")
            /\ UNCHANGED <<tunnels, tunnelFile, procs, children, nextPid,
                           allocations, portFile>>
       ELSE LET popped == Without(tunnels, {id})   \* dead record, if any
                found  == IF HasAllocation(allocations, id)
                          THEN <<allocations[id]>>
                          ELSE FindNextAvailablePort(allocations, BusyPorts(osBusy, procs))
            IN  IF found = <<>>
                THEN \* allocate raised RuntimeError before the try block
                     /\ tmRet' = Ret("create", id, <<>>, "RuntimeError")
                     /\ tunnels' = popped
                     /\ UNCHANGED <<tunnelFile, procs, children, nextPid,
                                    allocations, portFile>>
                ELSE \E outcome \in LaunchOutcomes :
                       LET local_port == found[1]
                           allocated  == With(allocations, id, local_port)
                       IN  IF outcome = "launch_error"
                           THEN \* Popen raised: release the port and re-raise
                                /\ allocations' = AllocationsAfterFailedLaunch(allocated, id)
                                /\ portFile' = SaveState(portFile, allocations', "written")
                                /\ tunnels' = popped
                                /\ children' = Reaped(children, procs)
                                /\ tmRet' = Ret("create", id, <<>>, outcome)
                                /\ UNCHANGED <<tunnelFile, procs, nextPid>>
                           ELSE \* The process was launched.  At the check after
                                \* the grace delay it is a child of this process
                                \* that nobody waited for, so os.kill(pid, 0)
                                \* succeeds whether it runs or has exited: the
                                \* record is stored and the port returned.  The
                                \* exited child is reaped when the Popen object
                                \* goes away at the return.
                                /\ nextPid <= MaxSpawns
                                /\ nextPid' = nextPid + 1
                                /\ procs' = IF outcome = "alive"
                                            THEN With(procs, nextPid, local_port)
                                            ELSE procs
                                /\ children' = IF outcome = "alive"
                                               THEN Reaped(children, procs) \cup {nextPid}
                                               ELSE Reaped(children, procs)
                                /\ allocations' = allocated
                                /\ portFile' = IF HasAllocation(allocations, id)
                                               THEN portFile
                                               ELSE SaveState(portFile, allocated, "written")
                                /\ tunnels' = With(popped, id,
                                                   [local_port |-> local_port, pid |-> nextPid])
                                /\ tunnelFile' = tunnels'
                                /\ tmRet' = Ret("create", id, <<local_port>>, outcome)

\* Mutant: close_tunnel releases every allocation.
AllocationsAfterClose_all(alloc, id) == EmptyMap

\* self.port_allocator.release(instance_id)
AllocationsAfterClose(alloc, id) == Without(alloc, {id})

\* close_tunnel(instance_id)
CloseTunnel(id) ==
    /\ OnlyTunnel
    /\ tmTick' = ~tmTick
    /\ UNCHANGED <<osBusy, paRet, paTick, nextPid, children>>
    /\ IF id \notin DOMAIN tunnels
       THEN /\ tmRet' = Ret("close", id, <<>>, "False")
            /\ UNCHANGED <<tunnels, tunnelFile, procs, allocations, portFile>>
       ELSE /\ procs' = Without(procs, {tunnels[id].pid})      \* SIGTERM, if running
            /\ tunnels' = TunnelsAfterClose(tunnels, id)
            /\ allocations' = AllocationsAfterClose(allocations, id)
            /\ portFile' = IF id \in DOMAIN allocations
                           THEN SaveState(portFile, allocations', "written") ELSE portFile
            /\ tunnelFile' = tunnels'
            /\ tmRet' = Ret("close", id, <<tunnels[id].local_port>>, "True")

\* close_all_tunnels(): close_tunnel for every tracked instance
CloseAllTunnels ==
    /\ OnlyTunnel
    /\ tmTick' = ~tmTick
    /\ UNCHANGED <<osBusy, paRet, paTick, nextPid, children>>
    /\ tmRet' = Ret("close_all", 0, <<>>, IF DOMAIN tunnels = {} THEN "nothing" ELSE "closed")
    /\ IF DOMAIN tunnels = {}
       THEN UNCHANGED <<tunnels, tunnelFile, procs, allocations, portFile>>
       ELSE /\ procs' = Without(procs, {tunnels[i].pid : i \in DOMAIN tunnels})
            /\ tunnels' = NoTunnels
            /\ allocations' = Without(allocations, DOMAIN tunnels)
            /\ portFile' = IF DOMAIN tunnels \cap DOMAIN allocations # {}
                           THEN SaveState(portFile, allocations', "written") ELSE portFile
            /\ tunnelFile' = tunnels'

\* list_tunnels(): _cleanup_dead_tunnels, then a copy of self.tunnels
ListTunnels ==
    /\ OnlyTunnel
    /\ tmTick' = ~tmTick
    /\ UNCHANGED <<osBusy, paRet, paTick, nextPid, procs, children, allocations, portFile>>
    /\ tunnels' = CleanupDeadTunnels(tunnels, procs, children)
    /\ tunnelFile' = IF DeadInstances(tunnels, procs, children) # {}
                     THEN tunnels' ELSE tunnelFile
    /\ tmRet' = Ret("list", 0, <<>>, "none")

\* TunnelManager() in a new process (the next CLI run): a new manager and a
\* new PortAllocator load the state files, then dead tunnels are cleaned up.
\* The processes the previous run launched are not children of this one.
TunnelRestart ==
    /\ OnlyTunnel
    /\ tmTick' = ~tmTick
    /\ UNCHANGED <<osBusy, paRet, paTick, nextPid, procs, portFile>>
    /\ children' = {}
    /\ allocations' = LoadState(portFile)
    /\ tunnels' = CleanupDeadTunnels(tunnelFile, procs, {})
    /\ tunnelFile' = IF DeadInstances(tunnelFile, procs, {}) # {}
                     THEN tunnels' ELSE tunnelFile
    /\ tmRet' = Ret("load", 0, <<>>, "none")

\* A running tunnel process is killed from outside or its connection drops.
ProcessDies(pid) ==
    /\ OnlyTunnel
    /\ pid \in DOMAIN procs
    /\ procs' = Without(procs, {pid})
    /\ UNCHANGED <<tunnels, tunnelFile, children, nextPid, tmRet, tmTick, portVars>>

TunnelNext ==
    \/ \E id \in InstanceIds : CreateTunnel(id)
    \/ \E id \in InstanceIds : CloseTunnel(id)
    \/ CloseAllTunnels
    \/ ListTunnels
    \/ TunnelRestart
    \/ \E pid \in 1..MaxSpawns : ProcessDies(pid)

\* A second CLI process on the same two state files: TunnelManager() loads
\* them and cleans up dead records, create_tunnel(instance_id) allocates a
\* port against what was loaded, launches ssh, stores the record and writes
\* both files, and the process ends while the tunnel it launched keeps
\* running.  The manager of the first process keeps what it loaded earlier.
PeerCreateTunnel(id) ==
    LET loaded_tunnels == CleanupDeadTunnels(tunnelFile, procs, {})
        loaded_ports   == LoadState(portFile)
        found == IF HasAllocation(loaded_ports, id)
                 THEN <<loaded_ports[id]>>
                 ELSE FindNextAvailablePort(loaded_ports, BusyPorts(osBusy, procs))
    IN  /\ OnlyTunnel
        /\ ~TunnelAlreadyUp(loaded_tunnels, procs, {}, id)
        /\ found # <<>>
        /\ nextPid <= MaxSpawns
        /\ nextPid' = nextPid + 1
        /\ procs' = With(procs, nextPid, found[1])
        /\ portFile' = SaveState(portFile, With(loaded_ports, id, found[1]), "written")
        /\ tunnelFile' = With(Without(loaded_tunnels, {id}), id,
                              [local_port |-> found[1], pid |-> nextPid])
        /\ UNCHANGED <<tunnels, children, tmRet, tmTick, allocations, osBusy,
                       paRet, paTick>>

\* The instance the second process works on: one the first process is never
\* called for.
PeerInstance == NumInstances + 1

\* Two processes that manage tunnels on one pair of state files, each for
\* instances of its own.
SharedTunnelNext ==
    \/ TunnelNext
    \/ PeerCreateTunnel(PeerInstance)

(***************************************************************************)
(* Job progress tracker (ComfyUIController)                                *)
(***************************************************************************)

\* max_wait_seconds, the budget handed to monitor_job_progress (its callers
\* pass 7200).
MaxWaitSeconds == 6

\* A poll's remote calls take 0..MaxJobLatency seconds in all.
MaxJobLatency == 1

\* Lines the remote log holds at most in one behaviour.
MaxRemoteLines == 2

\* Invocations of monitor_job_progress on one job log file.
MaxRuns == 2

\* Seconds slept after a poll, and after a poll that raised.
job_poll_sleep == 2
job_error_sleep == 5

\* A remote log line carries one of the execution indicators ("got prompt",
\* "processing", "requested to load", a progress bar), or the text
\* "=== LIVE TERMINAL OUTPUT ===", or neither.
LineKinds == {"plain", "marker", "delim"}

\* The text after the delimiter line of the file, as a sequence of pieces: a
\* captured line of one of the LineKinds, "summary" for an EXECUTION SUMMARY
\* block, "blank" for a newline on its own, and "cut" for the beginning of a
\* line up to the delimiter text it held.
RECURSIVE DropLeadingBlanks(_)
\* parts[1].lstrip('\n')
DropLeadingBlanks(q) ==
    IF q # <<>> /\ Head(q) = "blank" THEN DropLeadingBlanks(Tail(q)) ELSE q

RECURSIVE CutAtDelimiter(_)
\* parts[1] of content.split("=== LIVE TERMINAL OUTPUT ==="), without the
\* newline that ends the delimiter line: the text up to the next occurrence
\* of the delimiter text.
CutAtDelimiter(q) ==
    IF q = <<>> THEN <<>>
    ELSE IF Head(q) = "delim" THEN <<"cut">>
    ELSE <<Head(q)>> \o CutAtDelimiter(Tail(q))

\* Mutant: the rewrite writes parts[1] back as it is.
KeptSection_no_strip(q) == <<"blank">> \o CutAtDelimiter(q)

\* What a header rewrite writes after the new delimiter line: parts[1], which
\* starts with the newline of the old delimiter line, with its leading
\* newlines stripped.
KeptSection(q) == DropLeadingBlanks(<<"blank">> \o CutAtDelimiter(q))

\* No file has been read: the tracker is outside update_job_performance_metrics.
NoContent == <<>>

\* create_job_log_file: status "queued", no performance figures, an empty
\* appended section.  The section is the sequence of what was appended:
\* captured lines and EXECUTION SUMMARY blocks.
\* header is "json" while the text between the two delimiter lines is what
\* json.dumps wrote, "not_json" once it is something json.loads rejects.
NewJobFile ==
    [header |-> "json", status |-> "queued", queue_time |-> <<>>, total |-> <<>>,
     log |-> <<>>]

\* Mutant: the header is taken to parse whatever it holds.
HeaderParses_always(file) == TRUE

\* metadata = json.loads(metadata_section) does not raise json.JSONDecodeError
HeaderParses(file) == file.header = "json"

\* Mutant: update_job_status does not record the total duration.
UpdateJobStatus_no_total(file, new_status, total) ==
    [file EXCEPT !.status = new_status, !.log = KeptSection(@)]

\* Mutant: update_job_status leaves the status as it is.
UpdateJobStatus_keep_status(file, new_status, total) ==
    [file EXCEPT !.total = IF new_status \in {"completed", "failed", "timeout"}
                              /\ total # <<>>
                           THEN total ELSE @,
                 !.log = KeptSection(@)]

\* update_job_status(log_path, new_status, total_duration_seconds): rewrites
\* the metadata with the new status, the total duration for a finished job,
\* and writes the appended section back.  total is <<>> for None; a measured
\* duration is a positive float, so it is always truthy.
UpdateJobStatus(file, new_status, total) ==
    IF ~HeaderParses(file) THEN file
    ELSE [file EXCEPT !.header = "json",
                      !.status = new_status,
                      !.total = IF new_status \in {"completed", "failed", "timeout"}
                                   /\ total # <<>>
                                THEN total ELSE @,
                      !.log = KeptSection(@)]

\* Mutant: the update made at the execution indicator writes no field.
ExecutionStartedUpdate_no_write(file, queue_duration) ==
    [file EXCEPT !.log = KeptSection(@)]

\* update_job_performance_metrics with queue_time, execution_start_time and
\* status "executing" (the update made when an execution indicator is seen).
ExecutionStartedUpdate(file, queue_duration) ==
    IF ~HeaderParses(file) THEN file
    ELSE [file EXCEPT !.header = "json", !.status = "executing",
                      !.queue_time = <<queue_duration>>,
                      !.log = KeptSection(@)]

\* update_job_performance_metrics with last_updated, current_duration and
\* execution_time: header fields that are not part of jobFile, and the same
\* rewrite of the text after the delimiter.
PeriodicUpdate(file) ==
    IF ~HeaderParses(file) THEN file
    ELSE [file EXCEPT !.header = "json", !.log = KeptSection(@)]

\* if new_lines or int(elapsed_time) % 10 == 0
PeriodicUpdateDue(new_lines, elapsed_time) ==
    new_lines # <<>> \/ elapsed_time % 10 = 0

\* append_terminal_output: one "[HH:MM:SS] line" per non-empty line
AppendTerminalOutput(file, new_lines) == [file EXCEPT !.log = @ \o new_lines]

\* append_execution_summary: "\n=== EXECUTION SUMMARY ===\n" and the block
AppendExecutionSummary(file) == [file EXCEPT !.log = @ \o <<"blank", "summary">>]

\* The last n elements of sequence q, all of q when n >= Len(q): tail -n.
Tail_n(q, n) == IF n >= Len(q) THEN q ELSE SubSeq(q, Len(q) - n + 1, Len(q))

\* Mutant: a failed tail still moves the position to the line count.
GetLogsSince_skip_on_failure(at_wc, at_tail, last_position, wcOk, tailOk) ==
    LET current_line_count == Len(at_wc)
    IN  IF ~wcOk \/ current_line_count <= last_position
        THEN [lines |-> <<>>, position |-> last_position]
        ELSE IF ~tailOk THEN [lines |-> <<>>, position |-> current_line_count]
        ELSE [lines |-> Tail_n(at_tail, current_line_count - last_position),
              position |-> current_line_count]

\* get_comfyui_logs_since_position(last_position): wc -l, then tail -n of the
\* difference; at_wc and at_tail are the remote log as the two commands saw it.
GetLogsSince(at_wc, at_tail, last_position, wcOk, tailOk) ==
    LET current_line_count == Len(at_wc)
    IN  IF ~wcOk \/ current_line_count <= last_position \/ ~tailOk
        THEN [lines |-> <<>>, position |-> last_position]
        ELSE [lines |-> Tail_n(at_tail, current_line_count - last_position),
              position |-> current_line_count]

\* any(indicator in line.lower() ...) for some line of new_lines
HasExecutionIndicator(new_lines) ==
    \E i \in 1..Len(new_lines) : new_lines[i] = "marker"

\* The answer of curl -s .../history/<prompt_id> run on the instance: the exit
\* code of the command and its stdout, as text.  The server answers "{}" for
\* a prompt it has not filed, and an object keyed by the prompt id for one it
\* has; a proxy or a server that is starting answers text that is not JSON.
EmptyDict == {}
HistoryBodies ==
    [filed   |-> <<"{", "prompt_id", "}">>,
     unknown |-> <<"{", "}">>,
     html    |-> <<"<html>", "502 Bad Gateway">>,
     nothing |-> <<>>]
HistoryResponses(filed) ==
    {[exit_code |-> 0, stdout |-> HistoryBodies.html],
     [exit_code |-> 0, stdout |-> HistoryBodies.nothing],
     [exit_code |-> 7, stdout |-> HistoryBodies.nothing],
     [exit_code |-> 1, stdout |-> HistoryBodies.html],
     [exit_code |-> 0,
      stdout |-> IF filed THEN HistoryBodies.filed ELSE HistoryBodies.unknown]}

\* json.loads of such a text: an object is read as the set of its keys, any
\* other text raises.
IsJsonObject(text) == Len(text) >= 2 /\ text[1] = "{" /\ text[Len(text)] = "}"
JsonLoads(text) == {text[i] : i \in 2..(Len(text) - 1)}

\* Mutant: text that does not parse is returned as it is.
GetHistoryItem_raw(response) ==
    IF response.exit_code # 0 THEN EmptyDict
    ELSE IF IsJsonObject(response.stdout) THEN JsonLoads(response.stdout)
    ELSE {response.stdout[i] : i \in 1..Len(response.stdout)}

\* get_history_item(prompt_id): {} for a non-zero exit code and for stdout
\* that json.loads rejects.
GetHistoryItem(response) ==
    IF response.exit_code # 0 THEN EmptyDict
    ELSE IF IsJsonObject(response.stdout) THEN JsonLoads(response.stdout)
    ELSE EmptyDict

\* if history_item:
Truthy(item) == item # EmptyDict


JobInit ==
    /\ jobFile = NewJobFile
    /\ jPc = "idle"
    /\ jNow = 0
    /\ execution_started = FALSE
    /\ queue_end_time = <<>>
    /\ last_log_position = 0
    /\ jRet = "none"
    /\ jRuns = 0
    /\ remoteLog = <<>>
    /\ inHistory = FALSE
    /\ jTrackFrom = 0
    /\ jSawMarker = FALSE
    /\ history_item = EmptyDict
    /\ content = NoContent

\* monitor_job_progress(job_id, log_path, max_wait_seconds), up to the loop:
\* the status is set to "running" and the log position to the remote log's
\* current line count (0 when wc fails).  The file is the one
\* create_job_log_file wrote, or one an earlier run has already worked on
\* (monitor_job.py takes the log file of any job).
JobStart ==
    /\ OnlyJob
    /\ jPc \in {"idle", "done"}
    /\ jRuns < MaxRuns
    /\ jRuns' = jRuns + 1
    /\ jobFile' = UpdateJobStatus(jobFile, "running", <<>>)
    /\ \E wcOk \in BOOLEAN :
          last_log_position' = IF wcOk THEN Len(remoteLog) ELSE 0
    /\ jTrackFrom' = last_log_position'
    /\ jSawMarker' = FALSE
    /\ history_item' = EmptyDict
    /\ content' = content
    /\ execution_started' = FALSE
    /\ queue_end_time' = <<>>
    /\ jNow' = 0
    /\ jPc' = "loop"
    /\ jRet' = "none"
    /\ UNCHANGED <<remoteLog, inHistory>>

\* What the remote log gains between the wc and the tail of one poll.
Growth(log) ==
    {<<>>} \cup {<<k>> : k \in {x \in LineKinds : Len(log) < MaxRemoteLines}}

\* The locals of monitor_job_progress once it has returned.
NoLocals == [now |-> 0, started |-> FALSE, queue_end |-> <<>>]

\* What one iteration of the while loop of monitor_job_progress leaves behind,
\* given what its remote calls and its file writes met.  A remote command that
\* raises (the SSH session is gone) does so at the first one,
\* get_history_item; the functions that write the header catch their own
\* errors; append_terminal_output does not.
PollOutcome(callOk, response, wcOk, tailOk, appendOk, grown, latency) ==
    LET item         == GetHistoryItem(response)
        got          == GetLogsSince(remoteLog, remoteLog \o grown,
                                     last_log_position, wcOk, tailOk)
        new_lines    == got.lines
        starts       == /\ new_lines # <<>>
                        /\ ~execution_started
                        /\ HasExecutionIndicator(new_lines)
        marked       == IF starts
                        THEN ExecutionStartedUpdate(jobFile, jNow)
                        ELSE jobFile
        appended     == AppendTerminalOutput(marked, new_lines)
        updated      == IF PeriodicUpdateDue(new_lines, jNow)
                        THEN PeriodicUpdate(appended)
                        ELSE appended
        looping      == [file |-> jobFile, pc |-> "loop", ret |-> "none", item |-> item,
                         remote |-> remoteLog \o grown, position |-> got.position,
                         started |-> (execution_started \/ starts),
                         queue_end |-> IF starts THEN <<jNow>> ELSE queue_end_time,
                         saw |-> HasExecutionIndicator(new_lines),
                         now |-> jNow + latency + job_poll_sleep]
    IN  IF ~callOk
        THEN \* except Exception: sleep(5)
             [looping EXCEPT !.item = history_item,
                             !.remote = remoteLog, !.position = last_log_position,
                             !.started = execution_started,
                             !.queue_end = queue_end_time, !.saw = FALSE,
                             !.now = jNow + latency + job_error_sleep]
        ELSE IF new_lines # <<>> /\ ~appendOk
        THEN \* open() in append_terminal_output raised: sleep(5); the next
             \* iteration assigns history_item before it is read
             [looping EXCEPT !.file = marked, !.item = EmptyDict,
                             !.now = jNow + latency + job_error_sleep]
        ELSE IF Truthy(item)
        THEN \* completed: return True
             [looping EXCEPT !.file = AppendExecutionSummary(
                                         UpdateJobStatus(updated, "completed",
                                                         <<jNow + latency>>)),
                             !.pc = "done", !.ret = "True",
                             !.now = NoLocals.now, !.started = NoLocals.started,
                             !.queue_end = NoLocals.queue_end]
        ELSE [looping EXCEPT !.file = updated]

\* One iteration of the while loop of monitor_job_progress.
JobPoll ==
    /\ OnlyJob
    /\ jPc = "loop"
    /\ jNow < MaxWaitSeconds
    /\ \E o \in {PollOutcome(callOk, response, wcOk, tailOk, appendOk, grown, latency) :
                    callOk \in BOOLEAN, response \in HistoryResponses(inHistory),
                    wcOk \in BOOLEAN,
                    tailOk \in BOOLEAN, appendOk \in BOOLEAN,
                    grown \in Growth(remoteLog), latency \in 0..MaxJobLatency} :
          /\ jobFile' = o.file
          /\ jPc' = o.pc
          /\ jRet' = o.ret
          /\ remoteLog' = o.remote
          /\ last_log_position' = o.position
          /\ execution_started' = o.started
          /\ queue_end_time' = o.queue_end
          /\ jSawMarker' = o.saw
          /\ history_item' = o.item
          /\ jNow' = o.now
    /\ UNCHANGED <<jRuns, inHistory, jTrackFrom, content>>

\* The while condition fails: status "timeout", return False.
JobTimeout ==
    /\ OnlyJob
    /\ jPc = "loop"
    /\ jNow >= MaxWaitSeconds
    /\ jobFile' = UpdateJobStatus(jobFile, "timeout", <<jNow>>)
    /\ jPc' = "done"
    /\ jRet' = "False"
    /\ jNow' = NoLocals.now
    /\ execution_started' = NoLocals.started
    /\ queue_end_time' = NoLocals.queue_end
    /\ jSawMarker' = FALSE
    /\ UNCHANGED <<last_log_position, jRuns, remoteLog, inHistory, jTrackFrom,
                   history_item, content>>

\* The server writes a line to its log.
RemoteLogGrows(kind) ==
    /\ OnlyJob
    /\ Len(remoteLog) < MaxRemoteLines
    /\ remoteLog' = Append(remoteLog, kind)
    /\ UNCHANGED <<jobFile, jPc, jNow, execution_started, queue_end_time,
                   last_log_position, jRet, jRuns, inHistory,
                   jTrackFrom, jSawMarker, history_item, content>>

\* The server finishes the job and files it in its history.
JobFinishes ==
    /\ OnlyJob
    /\ ~inHistory
    /\ inHistory' = TRUE
    /\ UNCHANGED <<jobFile, jPc, jNow, execution_started, queue_end_time,
                   last_log_position, jRet, jRuns, remoteLog,
                   jTrackFrom, jSawMarker, history_item, content>>

JobNext ==
    \/ JobStart
    \/ JobPoll
    \/ JobTimeout
    \/ \E kind \in LineKinds : RemoteLogGrows(kind)
    \/ JobFinishes

\* monitor_job_progress called on the file create_job_log_file has just
\* written (run_workflow_from_file starts monitor_job.py once per job).
JobFirstStart == jRuns = 0 /\ JobStart

\* One run of monitor_job_progress on a new job log file.
JobRunNext ==
    \/ JobFirstStart
    \/ JobPoll
    \/ JobTimeout
    \/ \E kind \in LineKinds : RemoteLogGrows(kind)
    \/ JobFinishes

\* Something other than the tracker leaves the metadata header of the job log
\* file in a form json.loads rejects (an edit by hand, a write cut short).
HeaderDamaged ==
    /\ OnlyJob
    /\ jobFile.header = "json"
    /\ jobFile' = [jobFile EXCEPT !.header = "not_json"]
    /\ UNCHANGED <<jPc, jNow, execution_started, queue_end_time, last_log_position,
                   jRet, jRuns, remoteLog, inHistory, jTrackFrom, jSawMarker,
                   history_item, content>>

\* One run of monitor_job_progress on a job log file whose header may be
\* damaged before or during the run.
JobDamagedNext ==
    \/ JobRunNext
    \/ HeaderDamaged

\* Pieces the text after the delimiter holds at most when the writers of the
\* file are applied to it one by one.
MaxSectionLen == 3

\* append_terminal_output(log_path, [line]) on its own
SectionAppendLine(kind) ==
    /\ OnlyJob
    /\ Len(jobFile.log) < MaxSectionLen
    /\ jobFile' = AppendTerminalOutput(jobFile, <<kind>>)
    /\ UNCHANGED <<jPc, jNow, execution_started, queue_end_time, last_log_position,
                   jRet, jRuns, remoteLog, inHistory, jTrackFrom, jSawMarker,
                   history_item, content>>

\* append_execution_summary(log_path, history_item, total_time) on its own
SectionAppendSummary ==
    /\ OnlyJob
    /\ Len(jobFile.log) + 2 <= MaxSectionLen
    /\ jobFile' = AppendExecutionSummary(jobFile)
    /\ UNCHANGED <<jPc, jNow, execution_started, queue_end_time, last_log_position,
                   jRet, jRuns, remoteLog, inHistory, jTrackFrom, jSawMarker,
                   history_item, content>>

\* update_job_status(log_path, new_status) on its own
RewriteByStatus(new_status) ==
    /\ OnlyJob
    /\ jobFile' = UpdateJobStatus(jobFile, new_status, <<>>)
    /\ UNCHANGED <<jPc, jNow, execution_started, queue_end_time, last_log_position,
                   jRet, jRuns, remoteLog, inHistory, jTrackFrom, jSawMarker,
                   history_item, content>>

\* update_job_performance_metrics(log_path, {last_updated, current_duration}) on its own
RewriteByMetrics ==
    /\ OnlyJob
    /\ jobFile' = PeriodicUpdate(jobFile)
    /\ UNCHANGED <<jPc, jNow, execution_started, queue_end_time, last_log_position,
                   jRet, jRuns, remoteLog, inHistory, jTrackFrom, jSawMarker,
                   history_item, content>>

\* update_job_performance_metrics up to the end of "with open(log_path, 'r')":
\* content holds the whole file as it is at that moment.
RewriteRead ==
    /\ OnlyJob
    /\ content = NoContent
    /\ content' = jobFile
    /\ UNCHANGED <<jobFile, jPc, jNow, execution_started, queue_end_time,
                   last_log_position, jRet, jRuns, remoteLog, inHistory,
                   jTrackFrom, jSawMarker, history_item>>

\* update_job_performance_metrics from content.split on: with a header that
\* parses, open(log_path, 'w') truncates the file and the new header and
\* parts[1] of content are written; otherwise the file is not opened again.
RewriteWrite ==
    /\ OnlyJob
    /\ content # NoContent
    /\ jobFile' = IF HeaderParses(content) THEN PeriodicUpdate(content) ELSE jobFile
    /\ content' = NoContent
    /\ UNCHANGED <<jPc, jNow, execution_started, queue_end_time,
                   last_log_position, jRet, jRuns, remoteLog, inHistory,
                   jTrackFrom, jSawMarker, history_item>>

\* What the other writers of the file append: log_background_status writes
\* "\n[timestamp] BACKGROUND: message\n", log_extraction_to_job_log the block
\* from "=== EXTRACTION LOG" to "=== END EXTRACTION LOG ===".
PeerLines == {"background", "extraction"}

\* log_background_status / log_extraction_to_job_log in another process:
\* open(latest_log, 'a') and the writes, on the file as it is now.
PeerAppend(kind) ==
    /\ OnlyJob
    /\ Len(jobFile.log) < MaxSectionLen
    /\ jobFile' = [jobFile EXCEPT !.log = @ \o <<kind>>]
    /\ UNCHANGED <<jPc, jNow, execution_started, queue_end_time,
                   last_log_position, jRet, jRuns, remoteLog, inHistory,
                   jTrackFrom, jSawMarker, history_item, content>>

\* append_terminal_output by the tracker, whose thread is not inside
\* update_job_performance_metrics at that moment.
TrackerAppendLine(kind) ==
    /\ content = NoContent
    /\ SectionAppendLine(kind)

\* The tracker appending and rewriting while another process appends.
SharedJobFileNext ==
    \/ \E kind \in LineKinds : TrackerAppendLine(kind)
    \/ RewriteRead
    \/ RewriteWrite
    \/ \E kind \in PeerLines : PeerAppend(kind)

\* The writers of the job log file, applied in any order.
RewriteNext ==
    \/ \E kind \in LineKinds : SectionAppendLine(kind)
    \/ SectionAppendSummary
    \/ \E st \in {"running", "completed", "timeout"} : RewriteByStatus(st)
    \/ RewriteByMetrics

(***************************************************************************)
(* Status monitor                                                          *)
(***************************************************************************)

\* A text is a sequence of tokens: a keyword with its colon, a blank, a run
\* of other characters, a line break, or the two characters backslash and n.
Newline == "\n"
EscapedNewline == "\\n"
Indent == "  "
Whitespace == {" ", Indent, Newline}

\* The marker lines of /var/log/onstart.log the status script greps for, and
\* the sentinel file /.provisioning.
Markers == {"gui", "complete", "downloading", "container", "sentinel"}
LogMarkers == Markers \ {"sentinel"}

\* The log line a marker stands for.
MarkerLine(m) ==
    CASE m = "gui" -> "To see the GUI go to:"
      [] m = "complete" -> "Provisioning complete!"
      [] m = "downloading" -> "Downloading 1 model(s) to"
      [] m = "container" -> "Provisioning container"

\* The tag the cascade of "if ...; then ... exit 0; fi" blocks reaches first.
ScriptStatus_log_only(present) ==
    IF "gui" \in present THEN "READY"
    ELSE IF "complete" \in present THEN "STARTING_APP"
    ELSE IF "downloading" \in present THEN "DOWNLOADING"
    ELSE IF "container" \in present THEN "PROVISIONING"
    ELSE "INITIALIZING"

ScriptStatus(present) ==
    IF "gui" \in present THEN "READY"
    ELSE IF "complete" \in present THEN "STARTING_APP"
    ELSE IF "downloading" \in present THEN "DOWNLOADING"
    ELSE IF "sentinel" \in present \/ "container" \in present THEN "PROVISIONING"
    ELSE "INITIALIZING"

\* The DETAILS line each block echoes.
ScriptDetails(tag) ==
    CASE tag = "READY" -> "ComfyUI is fully loaded and running"
      [] tag = "STARTING_APP" -> "Provisioning complete, ComfyUI starting up"
      [] tag = "DOWNLOADING" -> "Downloading models (0 completed)"
      [] tag = "PROVISIONING" -> "Running initial provisioning script"
      [] tag = "INITIALIZING" -> "Instance booting up, waiting for services to start"

\* get_elapsed_time prints a line only when onstart.log exists; the
\* INITIALIZING block does not call it.
ElapsedLines(tag, present) ==
    IF tag # "INITIALIZING" /\ present \cap LogMarkers # {}
    THEN <<"ELAPSED_TIME:", " ", "5s", Newline>> ELSE <<>>

\* get_tunnel_urls is called by the READY and STARTING_APP blocks.
TunnelLines(tag) ==
    IF tag \in {"READY", "STARTING_APP"} THEN <<"TUNNEL_URLS:", Newline>> ELSE <<>>

\* get_storage_info
StorageLines == <<"STORAGE_INFO:", Newline, "Used: 1G / 2G", Newline>>

\* echo "LAST_LOG:" and the tail of onstart.log, every line indented by sed;
\* the tail shown here is the line of the marker that decided the status.
LastLogLines(tag, present) ==
    LET shown == CASE tag = "READY" -> <<"gui">>
                   [] tag = "STARTING_APP" -> <<"complete">>
                   [] tag = "DOWNLOADING" -> <<"downloading">>
                   [] tag = "PROVISIONING" ->
                        IF "container" \in present THEN <<"container">> ELSE <<>>
                   [] tag = "INITIALIZING" -> <<>>
    IN  IF tag = "INITIALIZING" THEN <<>>
        ELSE <<"LAST_LOG:", Newline>>
             \o (IF shown = <<>> THEN <<>>
                 ELSE <<Indent, MarkerLine(shown[1]), Newline>>)

\* What the status script writes to stdout on an instance holding `present`.
StatusScript(present) ==
    LET tag == ScriptStatus(present)
    IN  <<"STATUS:", " ", tag, Newline, "DETAILS:", " ", ScriptDetails(tag), Newline>>
        \o ElapsedLines(tag, present) \o TunnelLines(tag) \o StorageLines
        \o LastLogLines(tag, present)

\* str.strip()
RECURSIVE LStrip(_)
LStrip(text) ==
    IF text # <<>> /\ Head(text) \in Whitespace THEN LStrip(Tail(text)) ELSE text
RECURSIVE RStrip(_)
RStrip(text) ==
    IF text # <<>> /\ text[Len(text)] \in Whitespace
    THEN RStrip(SubSeq(text, 1, Len(text) - 1)) ELSE text
Strip(text) == RStrip(LStrip(text))

\* How the ssh subprocess of execute_remote_script can end.
ConnectFailures == {"no_key", "refused", "denied", "timed_out", "other_error",
                    "TimeoutExpired", "FileNotFoundError", "Exception"}
ExecOutcomes == ConnectFailures \cup {"exit_0", "exit_0_no_script"}

\* The phrases execute_remote_script looks for in result.stderr.lower().
SshPhrases == {"connection refused", "no route to host", "permission denied",
               "publickey", "timeout", "timed out", "banner exchange"}

\* One attempt: whether os.path.exists(self.ssh_key_path), how subprocess.run
\* ended (a zero or non-zero return code, or an exception), and which of the
\* phrases the stderr of a non-zero return holds.
AttemptEnds == {"exit_0", "exit_0_no_script", "nonzero",
                "TimeoutExpired", "FileNotFoundError", "Exception"}
NoAttempt == [key_exists |-> TRUE, end |-> "none", stderr |-> {}]
Attempts ==
    {[key_exists |-> k, end |-> e, stderr |-> {}] :
         k \in BOOLEAN, e \in AttemptEnds \ {"nonzero"}}
    \cup {[key_exists |-> k, end |-> "nonzero", stderr |-> phrases] :
             k \in BOOLEAN, phrases \in SUBSET SshPhrases}

\* Mutant: the authentication phrases are tested before the refused ones.
ClassifyStderr_auth_first(stderr) ==
    IF "permission denied" \in stderr \/ "publickey" \in stderr THEN "denied"
    ELSE IF "connection refused" \in stderr \/ "no route to host" \in stderr
    THEN "refused"
    ELSE IF "timeout" \in stderr \/ "timed out" \in stderr
            \/ "banner exchange" \in stderr
    THEN "timed_out"
    ELSE "other_error"

\* The if / elif chain over stderr after a non-zero return code.
ClassifyStderr(stderr) ==
    IF "connection refused" \in stderr \/ "no route to host" \in stderr
    THEN "refused"
    ELSE IF "permission denied" \in stderr \/ "publickey" \in stderr THEN "denied"
    ELSE IF "timeout" \in stderr \/ "timed out" \in stderr
            \/ "banner exchange" \in stderr
    THEN "timed_out"
    ELSE "other_error"

\* The branch of execute_remote_script an attempt takes.
AttemptOutcome(a) ==
    IF ~a.key_exists THEN "no_key"
    ELSE IF a.end = "nonzero" THEN ClassifyStderr(a.stderr)
    ELSE a.end

\* result.stderr, and str(e), of a failure neither branch recognises.
StderrText == <<"ssh: Could not resolve hostname", Newline>>
ExceptionText == <<"[Errno 13] Permission denied">>

\* The failure strings are written "STATUS: ...\\nDETAILS: ..." in string
\* literals that are not raw: the returned text holds a backslash and an n
\* between the tag and DETAILS, not a line break.
FailureText(tag, detail) ==
    <<"STATUS:", " ", tag, EscapedNewline, "DETAILS:", " ">> \o detail

\* execute_remote_script(ssh_info, script_content): the text it returns.
\* stdout is what the script wrote on the instance; a zero exit status of a
\* session that never ran the script returns the login text.
ExecuteRemoteScript(outcome, stdout) ==
    CASE outcome = "no_key" -> <<"STATUS:", " ", "SSH_KEY_ERROR">>
      [] outcome = "exit_0" -> Strip(stdout)
      [] outcome = "exit_0_no_script" -> Strip(<<"Welcome to vast.ai", Newline>>)
      [] outcome = "refused" ->
            FailureText("SSH_NOT_READY", <<"SSH service not available">>)
      [] outcome = "denied" ->
            FailureText("SSH_AUTH_ERROR", <<"SSH key not authorized">>)
      [] outcome = "timed_out" ->
            FailureText("SSH_NOT_READY", <<"Connection timeout">>)
      [] outcome = "other_error" -> FailureText("SSH_ERROR", StderrText)
      [] outcome = "TimeoutExpired" ->
            FailureText("SSH_NOT_READY", <<"SSH connection timeout">>)
      [] outcome = "FileNotFoundError" ->
            FailureText("SSH_ERROR", <<"SSH client not installed">>)
      [] outcome = "Exception" -> FailureText("SSH_ERROR", ExceptionText)

\* output.split('\n')
RECURSIVE SplitLines(_)
SplitLines(text) ==
    IF \A i \in 1..Len(text) : text[i] # Newline THEN <<text>>
    ELSE LET i == CHOOSE k \in 1..Len(text) :
                      text[k] = Newline /\ \A j \in 1..(k - 1) : text[j] # Newline
         IN  <<SubSeq(text, 1, i - 1)>> \o SplitLines(SubSeq(text, i + 1, Len(text)))

\* line.startswith(key)
StartsWith(line, key) == line # <<>> /\ line[1] = key

\* line.replace(key + ' ', ''): every occurrence of the key followed by one
\* blank is removed.
RECURSIVE RemoveAll(_, _)
RemoveAll(line, key) ==
    IF Len(line) < 2 THEN line
    ELSE IF line[1] = key /\ line[2] = " " THEN RemoveAll(SubSeq(line, 3, Len(line)), key)
    ELSE <<line[1]>> \o RemoveAll(Tail(line), key)

\* The headers that switch current_section.
SectionOf(key) ==
    CASE key = "TUNNEL_URLS:" -> "urls"
      [] key = "LAST_LOG:" -> "log"
      [] key = "CURRENT_DOWNLOAD:" -> "download"
      [] key = "ERROR_DETAILS:" -> "error"
      [] key = "STORAGE_INFO:" -> "storage"
SectionKeys == {"TUNNEL_URLS:", "LAST_LOG:", "CURRENT_DOWNLOAD:", "ERROR_DETAILS:",
                "STORAGE_INFO:"}

\* Mutant: the snapshot starts with an empty status.
InitialStatusData_empty ==
    [status |-> <<>>, details |-> <<>>, elapsed_time |-> <<>>,
     last_log |-> <<>>, storage_info |-> <<>>]

\* status_data as parse_status_output creates it; a string is the sequence of
\* its tokens, '' is <<>>.
InitialStatusData ==
    [status |-> <<"UNKNOWN">>, details |-> <<>>, elapsed_time |-> <<>>,
     last_log |-> <<>>, storage_info |-> <<>>]

\* One iteration of "for line in lines": the chain of if / elif.
ParseLine(line, status_data, current_section) ==
    IF StartsWith(line, "STATUS:")
    THEN [data |-> [status_data EXCEPT !.status = RemoveAll(line, "STATUS:")],
          section |-> current_section]
    ELSE IF StartsWith(line, "DETAILS:")
    THEN [data |-> [status_data EXCEPT !.details = RemoveAll(line, "DETAILS:")],
          section |-> current_section]
    ELSE IF StartsWith(line, "ELAPSED_TIME:")
    THEN [data |-> [status_data EXCEPT !.elapsed_time = RemoveAll(line, "ELAPSED_TIME:")],
          section |-> current_section]
    ELSE IF line # <<>> /\ line[1] \in SectionKeys
    THEN [data |-> status_data, section |-> SectionOf(line[1])]
    ELSE IF current_section = "log" /\ StartsWith(line, Indent)
    THEN [data |-> [status_data EXCEPT !.last_log = Append(@, Tail(line))],
          section |-> current_section]
    ELSE IF current_section = "storage" /\ Strip(line) # <<>>
    THEN [data |-> [status_data EXCEPT !.storage_info = Strip(line)],
          section |-> current_section]
    ELSE [data |-> status_data, section |-> current_section]

RECURSIVE ParseLines(_, _, _)
ParseLines(lines, status_data, current_section) ==
    IF lines = <<>> THEN status_data
    ELSE LET r == ParseLine(Head(lines), status_data, current_section)
         IN  ParseLines(Tail(lines), r.data, r.section)

\* parse_status_output(output)
ParseStatusOutput(output) == ParseLines(SplitLines(output), InitialStatusData, "None")

\* "STATUS:" in raw_output
MentionsStatus(raw_output) == \E i \in 1..Len(raw_output) : raw_output[i] = "STATUS:"

\* No status_data: parse_status_output was not called.
NoSnapshot == [status |-> <<>>, details |-> <<>>, elapsed_time |-> <<>>,
               last_log |-> <<>>, storage_info |-> <<"not parsed">>]

StatusInit ==
    /\ mPc = "loop"
    /\ mNow = 0
    /\ markers = {}
    /\ mRecord = "none"
    /\ mOutcome = "none"
    /\ mScriptSaw = {}
    /\ attempt = NoAttempt
    /\ rawOutput = <<>>
    /\ snapshot = NoSnapshot

\* How get_instance_info ends: a record, None (instance not in the list, or a
\* RequestException), or an exception monitor() does not catch.
FetchOutcomes == {"record", "None", "raised"}

\* What an iteration of the while loop of monitor() leaves behind.
\* raw_output and status_data are locals assigned anew by the iteration that
\* uses them; an iteration that does not reach them leaves none.
NoIteration(now) ==
    [record |-> "none", outcome |-> "none", saw |-> {}, raw |-> <<>>,
     data |-> NoSnapshot, pc |-> "loop", now |-> now + poll_interval]

\* get_instance_info raised, or returned None: leave the loop, or sleep and
\* continue.
IterationWithoutRecord(fetch, now) ==
    IF fetch = "raised" THEN [NoIteration(now) EXCEPT !.pc = "done", !.now = now]
    ELSE NoIteration(now)

\* The record was fetched: get_ssh_info, and with coordinates
\* execute_remote_script, the check for "STATUS:", parse_status_output and
\* the comparison with 'READY'.
IterationWithRecord(record, outcome, present, now) ==
    LET ssh_info   == GetSshInfo(record)
        raw_output == ExecuteRemoteScript(outcome, StatusScript(present))
        status_data == ParseStatusOutput(raw_output)
    IN  IF ssh_info = <<>>
        THEN [NoIteration(now) EXCEPT !.record = record.actual_status]
        ELSE IF ~MentionsStatus(raw_output)
        THEN [NoIteration(now) EXCEPT !.record = record.actual_status,
                                      !.outcome = outcome, !.raw = raw_output]
        ELSE [record |-> record.actual_status, outcome |-> outcome,
              saw |-> IF outcome = "exit_0" THEN present ELSE {},
              raw |-> raw_output, data |-> status_data,
              pc |-> IF status_data.status = <<"READY">> THEN "done" ELSE "loop",
              now |-> IF status_data.status = <<"READY">>
                      THEN now ELSE now + poll_interval]

\* The iterations possible on an instance holding `present`, by what the
\* control plane and the ssh subprocess do.
MonitorIterations(present, now) ==
    {IterationWithoutRecord(fetch, now) : fetch \in FetchOutcomes \ {"record"}}
    \cup {IterationWithRecord(record, "none", present, now) :
              record \in {x \in Records : GetSshInfo(x) = <<>>}}
    \cup {IterationWithRecord(record, outcome, present, now) :
              record \in {x \in Records : GetSshInfo(x) # <<>>},
              outcome \in ExecOutcomes}

\* while time.time() - start_time < max_wait_time: one iteration, the remote
\* calls of which took `latency` seconds.
MonitorPoll ==
    /\ OnlyStatus
    /\ mPc = "loop" /\ mNow < max_wait_time
    /\ \E r \in MonitorIterations(markers, mNow) :
          /\ mRecord' = r.record
          /\ mOutcome' = r.outcome
          /\ mScriptSaw' = r.saw
          /\ rawOutput' = r.raw
          /\ snapshot' = r.data
          /\ mPc' = r.pc
          /\ \E latency \in Latencies(IF r.outcome = "none" THEN 1 ELSE 2) :
                mNow' = r.now + latency
    /\ UNCHANGED <<markers, attempt>>

\* The loop condition fails: "Timeout after 60 minutes", return False.
MonitorTimeout ==
    /\ OnlyStatus
    /\ mPc = "loop" /\ ~(mNow < max_wait_time)
    /\ mPc' = "done"
    /\ UNCHANGED <<mNow, markers, mRecord, mOutcome, mScriptSaw, attempt,
                   rawOutput, snapshot>>

\* The instance's provisioning goes on: a marker line is written to
\* onstart.log, or the sentinel file is created.
RemoteProgress(m) ==
    /\ OnlyStatus
    /\ mPc = "loop"
    /\ m \notin markers
    /\ markers' = markers \cup {m}
    /\ UNCHANGED <<mPc, mNow, mRecord, mOutcome, mScriptSaw, attempt,
                   rawOutput, snapshot>>

MonitorNext ==
    \/ MonitorPoll
    \/ MonitorTimeout
    \/ \E m \in Markers : RemoteProgress(m)

\* Texts for parse_status_output on its own: up to MaxTextLines lines, each of
\* one of these shapes, joined by line breaks.
MaxTextLines == 2

LineShapes ==
    {<<>>,
     <<"STATUS:", " ", "READY">>,
     <<"STATUS:", " ", "DOWNLOADING">>,
     <<"STATUS:", " ", "SSH_ERROR", EscapedNewline, "DETAILS:", " ", "text">>,
     <<"DETAILS:", " ", "text">>,
     <<"ELAPSED_TIME:", " ", "5s">>,
     <<"LAST_LOG:">>,
     <<"STORAGE_INFO:">>,
     <<Indent, "text">>,
     <<Indent, "STATUS:", " ", "READY">>,
     <<"echo", " ", "STATUS:", " ", "READY">>,
     <<"text">>}

RECURSIVE JoinLines(_)
JoinLines(lines) ==
    IF lines = <<>> THEN <<>>
    ELSE IF Len(lines) = 1 THEN lines[1]
    ELSE lines[1] \o <<Newline>> \o JoinLines(Tail(lines))

TextsOfLines(n) == {JoinLines(lines) : lines \in [1..n -> LineShapes]}

\* status_data = parse_status_output(raw_output) for a text of those; each
\* text is parsed by a call of its own.
ParseText ==
    /\ OnlyStatus
    /\ snapshot = NoSnapshot
    /\ \E n \in 1..MaxTextLines : \E text \in TextsOfLines(n) :
          /\ rawOutput' = text
          /\ snapshot' = ParseStatusOutput(text)
    /\ UNCHANGED <<mPc, mNow, markers, mRecord, mOutcome, mScriptSaw, attempt>>

\* raw_output = execute_remote_script(ssh_info, status_script) called on its
\* own, for each attempt, on an instance that holds every marker.
ExecAttempt ==
    /\ OnlyStatus
    /\ attempt = NoAttempt
    /\ \E a \in Attempts :
          /\ attempt' = a
          /\ mOutcome' = AttemptOutcome(a)
          /\ rawOutput' = ExecuteRemoteScript(AttemptOutcome(a), StatusScript(Markers))
    /\ UNCHANGED <<mPc, mNow, markers, mRecord, mScriptSaw, snapshot>>

\* One process runs one of the two loops: the guard, or monitor().
GuardIdle == gPc = "loop" /\ gNow = 0 /\ gLast = "none"
MonitorIdle ==
    /\ mPc = "loop" /\ mNow = 0 /\ markers = {}
    /\ mRecord = "none" /\ mOutcome = "none"

PollingNext ==
    \/ MonitorIdle /\ GuardNext
    \/ GuardIdle /\ MonitorNext

(***************************************************************************)
(* Specifications                                                          *)
(***************************************************************************)

\* Every component as its constructor leaves it.
Init == GuardInit /\ PortsInit /\ TunnelInit /\ JobInit /\ StatusInit

\* The guard whose initial state the other components' runs carry along is the
\* one of oneshot.py.
InitAtRest == Init /\ gVariant = "oneshot"

SpecGuard == Init /\ [][GuardNext]_vars

SpecPorts == InitAtRest /\ [][PortsNext]_vars

SpecSharedPorts == InitAtRest /\ [][SharedPortsNext]_vars

SpecTunnel == InitAtRest /\ [][TunnelNext]_vars

SpecSharedTunnel == InitAtRest /\ [][SharedTunnelNext]_vars

SpecJob == InitAtRest /\ [][JobNext]_vars

SpecJobRun == InitAtRest /\ [][JobRunNext]_vars

\* The loop of monitor_job_progress runs in one thread that does nothing
\* else: as long as each remote command returns, the next iteration, or the
\* exit from the loop, takes place.
SpecJobRunFair == SpecJobRun /\ WF_vars(JobPoll) /\ WF_vars(JobTimeout)

SpecJobDamaged == InitAtRest /\ [][JobDamagedNext]_vars

SpecRewrite == InitAtRest /\ [][RewriteNext]_vars

SpecSharedJobFile == InitAtRest /\ [][SharedJobFileNext]_vars

SpecStatus == InitAtRest /\ [][MonitorNext]_vars

SpecParse == InitAtRest /\ [][ParseText]_vars

SpecExec == InitAtRest /\ [][ExecAttempt]_vars

SpecPolling == InitAtRest /\ [][PollingNext]_vars

(***************************************************************************)
(* Properties of the failsafe guard                                        *)
(***************************************************************************)

\* The copies of the guard that reset the timer only after a working connection.
StrictGuards == {"oneshot", "config"}

C2_SuccessResetsTimer ==
    [][ /\ (gExit' # "timeout" /\ gLast' \in {"status", "no_status", "READY"})
              => sshFailStart' = <<>>
        /\ (gExit' # "timeout" /\ gLast' \in SshFailureTags \cup {"no_ssh"}
               /\ sshFailStart = <<>>)
              => (/\ gPc' = "loop"
                  /\ sshFailStart' # <<>>
                  /\ FailDuration(sshFailStart', gNow' - poll_interval) = 0)
      ]_vars

\* C2 witness: a poll with a status other than READY has just reset a running timer.
C2_Witness ==
    gPc = "loop" /\ gLast = "status" /\ gRestored /\ sshFailStart = <<>>

\* C3: once the 60-minute budget has elapsed the guard takes no further poll
\* and returns False through the timeout exit, and a run that ended through
\* the timeout exit never called destroy_instance.
C3_TimeoutWithoutDestroy ==
    /\ [](gExit = "timeout" =>
            (/\ gPc = "done" /\ gResult = "False"
             /\ destroyCalls = 0 /\ deleteRequests = 0
             /\ gNow >= max_wait_time))
    /\ [][ (gPc = "loop" /\ gNow >= max_wait_time)
              => (gExit' = "timeout" /\ gResult' = "False" /\ destroyCalls' = 0) ]_vars

\* C3 witness: a run that timed out while its failure timer was running.
C3_Witness ==
    gExit = "timeout" /\ sshFailStart # <<>> /\ destroyCalls = 0

\* C22: the value the guard returns after a failsafe destroy is not the value
\* it returns when the 60-minute budget has elapsed.
C22_DestroyDistinctFromTimeout ==
    /\ gExit = "destroyed" => gResult # TimeoutReturn
    /\ gExit = "timeout" => gResult # FailsafeReturn

\* C23: a poll that cannot fetch the instance record starts the failure
\* timer, and a run in which no poll could fetch the record ends by the
\* failsafe, with one destroy call and False, as an all-SSH_NOT_READY run does.
C23_NoRecordStartsTimer ==
    /\ (gLast = "no_record" /\ gPc = "loop") => sshFailStart # <<>>
    /\ (gVariant \in StrictGuards /\ gAllNoRecord /\ gPc = "done")
          => (gExit = "destroyed" /\ destroyCalls = 1 /\ gResult = "False")

\* C21: a poll whose parsed status is READY ends the run at once: the guard
\* has returned True, takes no further poll, and no destroy call or DELETE
\* request was made in the run; and the guard returns True only from such a
\* poll.
C21_ReadyReturnsSuccess ==
    /\ gLast = "READY"
          => (/\ gPc = "done" /\ gResult = "True" /\ gExit = "ready"
              /\ destroyCalls = 0 /\ deleteRequests = 0
              /\ ~ENABLED GuardNext)
    /\ gResult = "True" => (gLast = "READY" /\ gExit = "ready")

\* C21 witness: a READY poll that came while the failure timer was running
\* ended the run with True.
C21_Witness ==
    /\ gLast = "READY" /\ gResult = "True" /\ gRestored
    /\ gNow > 0 /\ destroyCalls = 0

\* C31: the guard calls destroy_instance only in a poll that failed (no SSH
\* coordinates, or an SSH error tag) with the failure timer running for at
\* least max_ssh_fail_minutes; a poll that succeeded leaves the timer at None
\* and makes no destroy call, so no successful poll lies between the start of
\* a running timer and a destroy; and a poll that got SSH_AUTH_ERROR ends the
\* loop only when the threshold is reached.
FailedPolls == SshFailureTags \cup {"no_ssh"}
SucceededPolls == {"status", "no_status", "key_error", "READY"}
C31_DestroyOnlyAfterThreshold ==
    [][ /\ destroyCalls' # destroyCalls
            => (/\ gLast' \in FailedPolls
                /\ sshFailStart' # <<>>
                /\ FailDuration(sshFailStart', gNow') >= max_ssh_fail_minutes * 60)
        /\ (gNow' # gNow /\ gLast' \in SucceededPolls)
            => (sshFailStart' = <<>> /\ destroyCalls' = destroyCalls)
        /\ (gPc = "loop" /\ gLast' = "SSH_AUTH_ERROR" /\ gPc' = "done"
               /\ gExit' # "timeout")
            => (/\ gExit' = "destroyed"
                /\ FailDuration(sshFailStart', gNow') >= max_ssh_fail_minutes * 60)
      ]_vars

\* C31 witness: the failsafe fired in oneshot.py on an SSH_AUTH_ERROR poll,
\* three minutes or more after the timer was started.
C31_Witness ==
    /\ gVariant = "oneshot" /\ gExit = "destroyed" /\ gLast = "SSH_AUTH_ERROR"
    /\ destroyCalls = 1 /\ gNow - sshFailStart[1] >= max_ssh_fail_minutes * 60

C29_CoordinatesAloneDoNotReset ==
    (gVariant = "legacy" /\ gAllNotReady /\ gPc = "done")
        => (gExit = "destroyed" /\ destroyCalls = 1)

\* C30: in oneshot.py, a poll whose remote execution returned SSH_KEY_ERROR
\* and that found the failure timer running leaves it running.
C30_KeyErrorKeepsTimer ==
    [][ (/\ gVariant = "oneshot" /\ gPc = "loop" /\ sshFailStart # <<>>
         /\ gNow' # gNow /\ gLast' = "key_error")
            => sshFailStart' # <<>> ]_vars


(***************************************************************************)
(* Properties of the PortAllocator                                         *)
(***************************************************************************)

\* No two keys of the mapping m hold the same port.
Injective(m) == \A i, j \in DOMAIN m : i # j => m[i] # m[j]

\* C4: whatever allocate, release and cleanup_stale_allocations calls were
\* made on a PortAllocator, no two instance identifiers of its mapping hold
\* the same port.
C4_NoDuplicatePorts == Injective(allocations)

\* C4 witness: the base port was released by one instance and handed to a
\* later one, while the earlier-allocated next port is still held.
C4_Witness ==
    /\ 1 \in DOMAIN allocations /\ 2 \in DOMAIN allocations
    /\ allocations[2] = base_port /\ allocations[1] = base_port + 1
    /\ paRet = Ret("allocate", 2, <<base_port>>, "new")

\* A step that is a PortAllocator call named op.
PortCall(op) ==
    /\ <<allocations, portFile, paRet, paTick>>' # <<allocations, portFile, paRet, paTick>>
    /\ paRet'.op = op

\* C5: allocate returns the port the mapping holds for the identifier after
\* the call, and allocate for an identifier that already has a port returns
\* that port and changes neither the mapping nor the state file; so a second
\* allocate with no release in between returns what the first one returned.
C5_AllocateIdempotent ==
    [][ PortCall("allocate") =>
          /\ paRet'.port # <<>> =>
                (/\ paRet'.id \in DOMAIN allocations'
                 /\ allocations'[paRet'.id] = paRet'.port[1])
          /\ paRet'.id \in DOMAIN allocations =>
                (/\ paRet'.port = <<allocations[paRet'.id]>>
                 /\ allocations' = allocations
                 /\ portFile' = portFile)
      ]_vars

\* C5 witness: an allocate call found the identifier already mapped.
C5_Witness ==
    /\ paRet.op = "allocate" /\ paRet.note = "existing"
    /\ paRet.port = <<allocations[paRet.id]>>


\* C24: cleanup_stale_allocations(active) removes the identifiers that are
\* not in active and no other: the identifiers gone after the call are those
\* of the mapping that are not in active, nothing is added, and every kept
\* identifier has the port it had.
C24_CleanupRemovesExactlyStale ==
    [][ PortCall("cleanup") =>
          /\ DOMAIN allocations \ DOMAIN allocations' = DOMAIN allocations \ paRet'.active
          /\ DOMAIN allocations' \subseteq DOMAIN allocations
          /\ \A i \in DOMAIN allocations' : allocations'[i] = allocations[i]
      ]_vars

\* C24 witness: a cleanup removed one identifier and kept another.
C24_Witness ==
    /\ paRet.op = "cleanup" /\ paRet.note = "cleaned"
    /\ Cardinality(DOMAIN allocations) = 1

\* C25: after allocate, release or cleanup_stale_allocations has returned,
\* loading the state file gives the in-memory mapping, whatever the file
\* write did.
C25_FileMatchesMemory ==
    (paRet.op \in {"allocate", "release", "cleanup"} /\ paRet.note # "RuntimeError")
        => LoadState(portFile) = allocations

\* C26: when the state file holds what persisting the mapping writes, a new
\* PortAllocator on that file loads the same identifiers with the same ports.
C26_SaveLoadRoundTrip ==
    [][ (PortCall("load") /\ portFile = SaveState(portFile, allocations, "written"))
           => allocations' = allocations
      ]_vars

\* C26 witness: a new allocator loaded a file that holds two allocations.
C26_Witness ==
    /\ paRet.op = "load"
    /\ Cardinality(DOMAIN allocations) = 2
    /\ portFile = JsonDump(allocations)

\* The ports of the scanned range that are in no mapping and can be bound.
FreePorts(alloc, busy) == {p \in Ports : p \notin AllocatedPorts(alloc) /\ p \notin busy}
Smallest(S) == CHOOSE p \in S : \A q \in S : p <= q

\* C27: allocate for an identifier without mapping returns and records the
\* smallest port from base_port on that is in no mapping and can be bound;
\* when there is none it raises RuntimeError and leaves mapping and file as
\* they were.
C27_AllocateSmallestFreePort ==
    [][ (PortCall("allocate") /\ paRet'.id \notin DOMAIN allocations) =>
          LET free == FreePorts(allocations, osBusy)
          IN  IF free = {}
              THEN /\ paRet'.port = <<>> /\ paRet'.note = "RuntimeError"
                   /\ allocations' = allocations /\ portFile' = portFile
              ELSE /\ paRet'.port = <<Smallest(free)>>
                   /\ allocations' = With(allocations, paRet'.id, Smallest(free))
      ]_vars

\* C27 witness: allocate skipped base_port, bound by another process, and
\* the next port, held by the other instance, and recorded the third.
C27_Witness ==
    /\ paRet.op = "allocate" /\ paRet.note = "new"
    /\ base_port \in osBusy
    /\ paRet.port = <<base_port + 2>>
    /\ allocations[paRet.id] = base_port + 2

\* C38: when two processes allocate on the same state file, every identifier
\* the file holds stays in the file through an allocate call of either
\* process, and the ports of the file are pairwise different.
C38_NoAllocationLostBetweenProcesses ==
    [][ /\ \A id \in DOMAIN portFile : id \in DOMAIN portFile'
        /\ Injective(LoadState(portFile'))
      ]_vars

(***************************************************************************)
(* Properties of the TunnelManager                                         *)
(***************************************************************************)

\* A step that is a TunnelManager call named op.
TunnelCall(op) == tmTick' # tmTick /\ tmRet'.op = op

C7_KilledTunnelFreesPort ==
    [][ \A id \in DOMAIN tunnels :
          ( /\ tunnels[id].pid \notin DOMAIN procs
            /\ (TunnelCall("list") \/ (TunnelCall("create") /\ tmRet'.id = id)) )
          => /\ (id \notin DOMAIN tunnels' \/ tunnels'[id].pid # tunnels[id].pid)
             /\ (id \in DOMAIN tunnels'
                   \/ tunnels[id].local_port \notin AllocatedPorts(allocations'))
      ]_vars

\* C8: create_tunnel for an instance whose tunnel process is running returns
\* the recorded local port, launches no process and changes no record and no
\* allocation; a create_tunnel that returns a port leaves that port recorded.
C8_CreateTunnelIdempotent ==
    [][ TunnelCall("create") =>
          /\ tmRet'.port # <<>> =>
                (/\ tmRet'.id \in DOMAIN tunnels'
                 /\ tunnels'[tmRet'.id].local_port = tmRet'.port[1])
          /\ (tmRet'.id \in DOMAIN tunnels
                /\ tunnels[tmRet'.id].pid \in DOMAIN procs) =>
                (/\ tmRet'.port = <<tunnels[tmRet'.id].local_port>>
                 /\ UNCHANGED <<tunnels, tunnelFile, procs, children, nextPid,
                                allocations, portFile>>)
      ]_vars

\* C8 witness: a second create_tunnel found the running tunnel; one process
\* was launched in all.
C8_Witness ==
    /\ tmRet.op = "create" /\ tmRet.note = "existing"
    /\ tunnels[tmRet.id].pid \in DOMAIN procs
    /\ nextPid = 2 /\ tmRet.port = <<tunnels[tmRet.id].local_port>>

\* C9: when the launched process is gone after the grace delay, or cannot be
\* launched, create_tunnel raises and leaves neither a TunnelRecord nor a
\* port allocation for that instance.
C9_FailedLaunchReleasesPort ==
    [][ (TunnelCall("create") /\ tmRet'.note \in {"died", "launch_error"}) =>
          /\ tmRet'.port = <<>>
          /\ tmRet'.id \notin DOMAIN tunnels'
          /\ tmRet'.id \notin DOMAIN allocations'
      ]_vars


\* A mapping that lost exactly the key id and kept every other key's value.
LostOnly(before, after, id) ==
    /\ DOMAIN after = DOMAIN before \ {id}
    /\ \A j \in DOMAIN after : after[j] = before[j]

C39_EveryLiveTunnelIsTracked ==
    \A pid \in DOMAIN procs : \E id \in DOMAIN tunnelFile : tunnelFile[id].pid = pid

(***************************************************************************)
(* Properties of the job progress tracker                                  *)
(***************************************************************************)

\* The stage of the lifecycle a recorded status belongs to.
StatusStage(status) ==
    CASE status = "queued" -> 0
      [] status \in {"running", "executing"} -> 1
      [] OTHER -> 2

\* C10: whatever status writes the tracker makes to a job's file, a later
\* invocation of monitor_job_progress on a finished file included, the
\* recorded status only moves forward: queued, then running/executing, then
\* a terminal status, and never from a terminal status back.
C10_StatusOnlyMovesForward ==
    [][StatusStage(jobFile'.status) >= StatusStage(jobFile.status)]_vars

\* The captured lines a section holds, without the newlines on their own.
LogLines(q) == SelectSeq(q, LAMBDA x : x # "blank")

\* Sequence a is the beginning of sequence b.
IsPrefix(a, b) == Len(a) <= Len(b) /\ SubSeq(b, 1, Len(a)) = a

\* C11: whatever was appended to the log section before, a header rewrite by
\* update_job_status or update_job_performance_metrics (and an append) keeps
\* every line of it, in order: the section is only extended, never shortened.
C11_LogSectionOnlyGrows ==
    [][IsPrefix(LogLines(jobFile.log), LogLines(jobFile'.log))]_vars

\* The remote line each piece of a section was captured from: the beginning
\* of a line stands for the line that held the delimiter text.
SourceLines(q) == [i \in 1..Len(q) |-> IF q[i] = "cut" THEN "delim" ELSE q[i]]

\* C12: in a run on a new file, the lines the run has written to the log
\* section are the remote lines from the position tracking began at up to the
\* position tracked now: each once, in order, none skipped.
C12_EachRemoteLineOnce ==
    (jRuns = 1 /\ jPc = "loop") =>
        (/\ jTrackFrom <= last_log_position
         /\ last_log_position <= Len(remoteLog)
         /\ SourceLines(jobFile.log)
               = SubSeq(remoteLog, jTrackFrom + 1, last_log_position))

\* A step that is one iteration of the loop of monitor_job_progress.
PollStep ==
    /\ jPc = "loop" /\ jNow < MaxWaitSeconds
    /\ (jNow' # jNow \/ jPc' = "done")

\* C13: in a run on a queued file, the first poll whose new lines hold an
\* execution indicator writes status "executing" and the queue time of that
\* poll; polls before it write neither, and polls after it leave the queue
\* time as it is and never write "executing" again (the status stays, or
\* becomes "completed").
C13_ExecutingOnce ==
    [][ PollStep =>
          /\ (~execution_started /\ jSawMarker') =>
                (/\ jobFile'.queue_time = <<jNow>>
                 /\ jobFile'.status \in {"executing", "completed"})
          /\ (execution_started \/ ~jSawMarker') =>
                (/\ jobFile'.queue_time = jobFile.queue_time
                 /\ jobFile'.status \in {jobFile.status, "completed"})
          /\ ~execution_started => jobFile.queue_time = <<>>
      ]_vars

\* C13 witness: the status is "executing" with the queue time of an earlier
\* poll, and the most recent poll, a later one, saw a further indicator.
C13_Witness ==
    /\ jPc = "loop" /\ jobFile.status = "executing" /\ jSawMarker
    /\ execution_started /\ jobFile.queue_time # <<>>
    /\ jobFile.queue_time[1] + job_error_sleep + MaxJobLatency < jNow

C35_CompletedOnlyFromHistory ==
    [][ /\ (jPc = "loop" /\ jobFile'.status = "completed")
            => (/\ history_item' = JsonLoads(HistoryBodies.filed)
                /\ Truthy(history_item')
                /\ inHistory
                /\ jRet' = "True")
        /\ (jPc = "loop" /\ jNow < MaxWaitSeconds /\ ~Truthy(history_item'))
            => (/\ jPc' = "loop"
                /\ jRet' = "none"
                /\ jobFile'.status \in {jobFile.status, "executing"})
      ]_vars

\* C35 witness: the job was filed in the history and a poll has marked it
\* completed after earlier polls had gone on without it.
C35_Witness ==
    /\ jPc = "done" /\ jobFile.status = "completed" /\ inHistory
    /\ Truthy(history_item) /\ jobFile.total # <<>> /\ jobFile.total[1] >= job_poll_sleep

\* C36: on a job log file whose metadata header is not valid JSON,
\* update_job_status and update_job_performance_metrics return the file as it
\* is; a step of the tracker on such a file leaves the header and what it
\* records as they were and only appends to the text after them; and a poll
\* that did not find the job in the history leaves the loop running.
C36_DamagedHeaderIsLeftAlone ==
    [][ jobFile.header = "not_json"
          => (/\ \A st \in {"running", "executing", "completed", "timeout"} :
                    \A total \in {<<>>, <<jNow>>} :
                        UpdateJobStatus(jobFile, st, total) = jobFile
              /\ ExecutionStartedUpdate(jobFile, jNow) = jobFile
              /\ PeriodicUpdate(jobFile) = jobFile
              /\ jobFile' = [jobFile EXCEPT !.log = jobFile'.log]
              /\ IsPrefix(jobFile.log, jobFile'.log)
              /\ (jPc = "loop" /\ jNow < MaxWaitSeconds /\ ~Truthy(history_item'))
                    => jPc' = "loop"
              /\ (jPc = "loop" /\ jPc' = "done") => jRet' \in {"True", "False"})
      ]_vars

\* C36 witness: a run went on polling and capturing lines on a file whose
\* header had been damaged before the execution indicator came, and ended.
C36_Witness ==
    /\ jobFile.header = "not_json" /\ jobFile.status = "running"
    /\ jPc = "done" /\ jRet = "True" /\ jobFile.log # <<>> /\ jobFile.queue_time = <<>>

\* C37: inside a run of the tracker last_log_position never decreases;
\* get_comfyui_logs_since_position returns no lines and the position it was
\* given when wc fails, when tail fails, or when the line count is not above
\* the position; and a poll that leaves the position where it was appends no
\* captured line to the file.
C37_OffsetNeverDecreases ==
    [][ jPc = "loop"
          => (/\ last_log_position' >= last_log_position
              /\ \A wcOk \in BOOLEAN, tailOk \in BOOLEAN, grown \in Growth(remoteLog) :
                    (~wcOk \/ ~tailOk \/ Len(remoteLog) <= last_log_position)
                       => GetLogsSince(remoteLog, remoteLog \o grown,
                                       last_log_position, wcOk, tailOk)
                            = [lines |-> <<>>, position |-> last_log_position]
              /\ (last_log_position' = last_log_position /\ jRet' # "True")
                    => Len(jobFile'.log) <= Len(jobFile.log)
              /\ (last_log_position' = last_log_position /\ jRet' = "True")
                    => Len(jobFile'.log) <= Len(jobFile.log) + 2)
      ]_vars

\* C37 witness: after the position had advanced in this run, a later poll
\* left it behind the line count of the remote log.
C37_Witness ==
    /\ jPc = "loop" /\ last_log_position > jTrackFrom
    /\ last_log_position < Len(remoteLog)
    /\ jNow >= 2 * job_poll_sleep /\ jobFile.log # <<>>

\* The number of elements of q that equal x.
RECURSIVE Count(_, _)
Count(q, x) ==
    IF q = <<>> THEN 0 ELSE (IF Head(q) = x THEN 1 ELSE 0) + Count(Tail(q), x)

\* C40: while another process appends to the job log file, every line it
\* appended is still in the file after a header rewrite by the tracker: the
\* step that completes a rewrite removes none of the other process's lines,
\* including one appended between the rewrite's read and its write.
C40_PeerAppendsSurviveRewrite ==
    [][ (content # NoContent /\ content' = NoContent)
          => \A kind \in PeerLines :
                Count(jobFile'.log, kind) >= Count(jobFile.log, kind) ]_vars

C16_RewriteIdempotent ==
    LET once  == UpdateJobStatus(jobFile, jobFile.status, <<>>)
        twice == UpdateJobStatus(once, jobFile.status, <<>>)
        m1    == PeriodicUpdate(jobFile)
        m2    == PeriodicUpdate(m1)
        clean == /\ \A i \in 1..Len(jobFile.log) : jobFile.log[i] # "delim"
                 /\ (jobFile.log # <<>> => Head(jobFile.log) # "blank")
    IN  /\ twice.log = once.log
        /\ m2.log = m1.log
        /\ PeriodicUpdate(once).log = once.log
        /\ clean => (once.log = jobFile.log /\ m1.log = jobFile.log)

\* C16 witness: a file whose section a rewrite has changed (leading newline
\* stripped before the summary block), with a captured line appended since.
C16_Witness ==
    /\ jobFile.status = "running"
    /\ jobFile.log = <<"summary", "plain">>



(***************************************************************************)
(* Properties of the status monitor                                        *)
(***************************************************************************)

\* The order of the states, lowest first, and what makes each one a candidate.
StatusOrder == <<"INITIALIZING", "PROVISIONING", "DOWNLOADING", "STARTING_APP", "READY">>
RankOf(tag) == CHOOSE i \in 1..Len(StatusOrder) : StatusOrder[i] = tag
MarkerPresent(tag, present) ==
    CASE tag = "READY" -> "gui" \in present
      [] tag = "STARTING_APP" -> "complete" \in present
      [] tag = "DOWNLOADING" -> "downloading" \in present
      [] tag = "PROVISIONING" -> "sentinel" \in present \/ "container" \in present
      [] tag = "INITIALIZING" -> TRUE
HighestPriority(present) ==
    CHOOSE t \in ScriptTags :
        /\ MarkerPresent(t, present)
        /\ \A u \in ScriptTags : MarkerPresent(u, present) => RankOf(u) <= RankOf(t)

\* C17: whenever the status script ran on the instance, the status parsed
\* from its output is the highest-priority state whose marker was present:
\* READY whenever the completion line was there, PROVISIONING when only the
\* sentinel file was there, INITIALIZING when nothing was there.
C17_HighestPriorityStatus ==
    mOutcome = "exit_0" =>
        /\ snapshot.status = <<HighestPriority(mScriptSaw)>>
        /\ ("gui" \in mScriptSaw => snapshot.status = <<"READY">>)
        /\ (mScriptSaw = {"sentinel"} => snapshot.status = <<"PROVISIONING">>)
        /\ (mScriptSaw = {} => snapshot.status = <<"INITIALIZING">>)

\* The script ran on an instance that held only the sentinel file.
C17_Witness ==
    /\ mOutcome = "exit_0"
    /\ mScriptSaw = {"sentinel"}
    /\ snapshot.status = <<"PROVISIONING">>
    /\ snapshot.last_log = <<>>

\* C18: after a poll whose connection attempt failed, the parsed status is
\* one of the four bare connection tags, and the detail text the failure
\* carries is in the details field.
C18_FailureGivesBareTag ==
    mOutcome \in ConnectFailures =>
        /\ snapshot.status \in
               {<<t>> : t \in {"SSH_NOT_READY", "SSH_AUTH_ERROR", "SSH_KEY_ERROR", "SSH_ERROR"}}
        /\ (mOutcome # "no_key" => snapshot.details # <<>>)

\* A line of the text that begins with the STATUS keyword, and what follows
\* the keyword and its blank.
IsStatusLine(line) == Len(line) >= 2 /\ line[1] = "STATUS:" /\ line[2] = " "
TagOfStatusLine(line) == SubSeq(line, 3, Len(line))

ReturnedTag == IF Len(rawOutput) >= 3 /\ rawOutput[1] = "STATUS:" THEN rawOutput[3] ELSE "none"
RefusedPhrases == {"connection refused", "no route to host"}
AuthPhrases == {"permission denied", "publickey"}
TimeoutPhrases == {"timeout", "timed out", "banner exchange"}
C34_FailureClassification ==
    LET held(phrases) == attempt.stderr \cap phrases # {}
        nonzero == attempt.key_exists /\ attempt.end = "nonzero"
    IN  /\ ~attempt.key_exists => ReturnedTag = "SSH_KEY_ERROR"
        /\ (nonzero /\ held(RefusedPhrases)) => ReturnedTag = "SSH_NOT_READY"
        /\ (nonzero /\ ~held(RefusedPhrases) /\ held(AuthPhrases))
              => ReturnedTag = "SSH_AUTH_ERROR"
        /\ (nonzero /\ ~held(RefusedPhrases) /\ ~held(AuthPhrases)
               /\ held(TimeoutPhrases))
              => ReturnedTag = "SSH_NOT_READY"
        /\ (nonzero /\ ~held(SshPhrases)) => ReturnedTag = "SSH_ERROR"
        /\ (attempt.key_exists /\ attempt.end = "TimeoutExpired")
              => ReturnedTag = "SSH_NOT_READY"
        /\ (attempt.key_exists /\ attempt.end \in {"FileNotFoundError", "Exception"})
              => ReturnedTag = "SSH_ERROR"

\* C34 witness: stderr held a refused, an authentication and a timeout phrase
\* at once, and the attempt was classified SSH_NOT_READY.
C34_Witness ==
    /\ attempt.key_exists /\ attempt.end = "nonzero"
    /\ {"no route to host", "publickey", "timed out"} \subseteq attempt.stderr
    /\ ReturnedTag = "SSH_NOT_READY"

\* C33: monitor() has ended only by returning True from a poll whose parsed
\* status is READY, or by returning False once max_wait_minutes have elapsed;
\* it makes no destroy call.
C33_MonitorEndsTwoWays ==
    /\ mPc = "done"
          => (\/ (snapshot # NoSnapshot /\ snapshot.status = <<"READY">>)
              \/ mNow >= max_wait_time)
    /\ destroyCalls = 0 /\ deleteRequests = 0

\* C20: a poll of the guard or of monitor() that fetched a record whose
\* actual_status is not "running", or no record, did not call
\* execute_remote_script.
C20_NoConnectionUnlessRunning ==
    /\ gRecord # "running" => ~gConnected
    /\ mRecord # "running" => mOutcome = "none"

\* The guard fetched a record that is still loading and went to the failure
\* branch without connecting.
C20_Witness ==
    /\ gRecord = "loading"
    /\ gLast = "no_ssh"
    /\ ~gConnected
    /\ sshFailStart # <<>>

==========================================================================
